---- MODULE Spec2Model ----
(***************************************************************************)
(* kx-iqcaptcha: the CAPTCHA manager (CaptchaMgr, a queue of ready         *)
(* challenges fed by a generator, optionally in a forked worker), the      *)
(* per-subject authentication record (AuthRecord) and the authenticator    *)
(* (CaptchaAuthr) that runs the challenge-response protocol on top of the   *)
(* manager.                                                                 *)
(*                                                                         *)
(* Conventions.                                                            *)
(*  - A JavaScript string is the sequence of its UTF-16 code units, so     *)
(*    "DI" is <<68, 73>> and the empty string is << >>.                    *)
(*  - The counters _wrong and _correct are JavaScript numbers that move in *)
(*    steps of 0.5 and 1.  They are kept as integer counts of halves:      *)
(*    a field holding 3 stands for 1.5.  Half is the number of halves in 1.*)
(*  - Date.now() is the variable now.                                      *)
(*  - An async function runs synchronously up to its first await.  A call  *)
(*    of tryAuth or deAuthAndGenNew occupies a slot of calls until its     *)
(*    caller has received the result.  What is left of the call after its  *)
(*    synchronous part are jobs of the microtask queue: they run one at a  *)
(*    time, first queued first run, and no timer fires while a job is      *)
(*    queued.  The continuation of an await runs one job after the awaited *)
(*    promise is settled; an async function that returns a promise         *)
(*    (popCaptcha) settles its own promise two jobs after the returned one *)
(*    is settled; return await adds one job for every level of the call.   *)
(*    The clock is not tied to the queue: time may pass between two jobs.  *)
(*    The caller receives calls[s].result in the step CallReturns(s).      *)
(***************************************************************************)
EXTENDS Integers, Sequences, FiniteSets, TLC

VARIABLES
    mgr,      \* the CaptchaMgr object
    creating, \* generator.create() calls in flight (direct or in the worker)
    made,     \* challenges the generator has produced so far
    authr,    \* the CaptchaAuthr object: map (id -> record address), lastOldCheck
    prefs,    \* authPreferences, fixed at construction
    heap,     \* AuthRecord objects by address
    calls,    \* suspended asynchronous calls, by slot
    now,      \* Date.now()
    last      \* what the checkAnswer call under observation returned

vars == <<mgr, creating, made, authr, prefs, heap, calls, now, last>>

(***************************************************************************)
(* Bounds of the model.                                                    *)
(***************************************************************************)
MaxChallenges == 4   \* challenges the generator may produce in one behaviour
MaxTime == 4         \* the clock stops advancing here
MaxCalls == 2        \* asynchronous calls that may be suspended at once
MaxLen == 3          \* length of the strings the comparator is tried on
MaxPairs == 2        \* surrogate pairs in the strings the comparator is tried on

Half == 2

Ids == {"s1", "s2"}
Slots == 1..MaxCalls
\* addresses of AuthRecord objects: an object is alive while the map or a
\* suspended call refers to it, so one address is always free
Addrs == 1..(Cardinality(Ids) + MaxCalls + 1)

(***************************************************************************)
(* Strings.                                                                *)
(***************************************************************************)
Empty == << >>
Regen == <<114, 101, 103, 101, 110>>          \* 'regen'
\* the answers the generator draws at random: two distinct upper-case letters
\* of possibleLetters; here "DI" or "AK"
Answers == {<<68, 73>>, <<65, 75>>}
\* generator.create(): the n-th challenge, with the answer that was drawn
Create(n, answer) == [id |-> n, answer |-> answer]
\* answers a subject submits: none, 'regen', "id", "AK"
Inputs == {Empty, Regen, <<105, 100>>, <<65, 75>>}

NoCh == [id |-> 0, answer |-> Empty]

(***************************************************************************)
(* Calls in progress.  kind: "pop" (a bare popCaptcha() by some consumer), *)
(* "tryAuth", "deAuthAndGenNew".  pc: "parked" while the promise that       *)
(* popCaptcha() returned is pending, "settled" once it holds value,         *)
(* "written" when the rest of genCaptcha() has run, "done" when the handler *)
(* has returned and result is on its way to the caller.  rec is the         *)
(* AuthRecord the call works on, state the protocol state a call that       *)
(* awaits genCaptcha() will report, store whether it puts rec into the map  *)
(* when it resumes.  seq is the place of the call's next job in the         *)
(* microtask queue, 0 when none is queued; hops is the number of promise    *)
(* jobs that run before the job pc stands for; up is the number of return   *)
(* await levels between the handler that awaits genCaptcha() and the        *)
(* caller.  The continuation of a bare consumer is not followed.            *)
(***************************************************************************)
NoResult == [op |-> "", ans |-> Empty, state |-> "", challenge |-> 0]

IdleCall ==
    [kind |-> "idle", id |-> "", ans |-> Empty, pc |-> "idle", rec |-> 0,
     state |-> "", store |-> FALSE, value |-> NoCh, seq |-> 0, hops |-> 0, up |-> 0,
     result |-> NoResult]

IsIdle(s) == calls[s].kind = "idle"

\* the slot a new call takes
FreeSlot == CHOOSE s \in Slots : IsIdle(s) /\ \A t \in Slots : t < s => ~IsIdle(t)

HasFreeSlot == \E s \in Slots : IsIdle(s)

\* What the call op ("tryAuth", "deAuthAndGenNew") with answer ans returned: the fields of
\* {captcha: {state, challenge}}.  challenge is the presented captcha's data,
\* named by the captcha's id, and 0 when the result carries no challenge.  (The
\* diagnostic info field is left out.)  state "throw" stands for an exception
\* on its way to the caller: a rejected promise.  (NoResult, above.)

\* the jobs queued in cs
Queued(cs) == Cardinality({s \in Slots : cs[s].seq > 0})

\* no job is queued: the microtask queue is empty
NoJob == \A s \in Slots : calls[s].seq = 0

\* resolveFunc(res) for the call in slot s: the promise popCaptcha() returned
\* is fulfilled, and one more promise job carries the value to the promise of
\* popCaptcha() itself.  That job is queued now, unless the job that subscribes
\* to the returned promise is still queued and will queue it.
Settle(cs, s, res) ==
    IF cs[s].kind = "pop"
    THEN [cs EXCEPT ![s].pc = "settled", ![s].value = res]
    ELSE [cs EXCEPT ![s].pc = "settled", ![s].value = res,
                    ![s].hops = @ + 1,
                    ![s].seq = IF @ > 0 THEN @ ELSE Queued(cs) + 1]

\* the job at the head of the queue, that of slot s, has run: the others move
\* up, and the next job of s, if it has one, is queued last
Requeue(cs, s, again) ==
    [t \in Slots |->
        IF t = s THEN [cs[s] EXCEPT !.seq = IF again THEN Queued(cs) ELSE 0]
        ELSE IF cs[t].seq > 1 THEN [cs[t] EXCEPT !.seq = @ - 1]
        ELSE cs[t]]

(***************************************************************************)
(* CaptchaMgr                                                              *)
(***************************************************************************)
\* new CaptchaMgr({initialCapacity, capacityDynamic, forks})
NewMgr(initialCapacity, capacityDynamic, forks) ==
    [capacity |-> initialCapacity,
     capacityDynamic |-> capacityDynamic,
     forks |-> forks,
     pendingCaptchas |-> 0,
     readyQue |-> << >>,
     awaitingQue |-> << >>,
     terminate |-> FALSE,
     providerJob |-> FALSE, killed |-> FALSE,
     ticking |-> "unset", tickLeak |-> FALSE,
     cutback |-> "unset", cutLeak |-> FALSE]

\* variant: the head of the ready queue is returned but not removed
TryGettingCaptcha_NoShift(m) ==
    LET m1 == IF Len(m.readyQue) <= 2 /\ m.capacityDynamic
              THEN [m EXCEPT !.capacity = @ + 1] ELSE m
    IN  IF Len(m1.awaitingQue) = 0 /\ Len(m1.readyQue) > 0
        THEN [mgr |-> m1, value |-> Head(m1.readyQue)]
        ELSE [mgr |-> m1, value |-> NoCh]

\* variant: the demand signal looks at the ready queue after the shift
TryGettingCaptcha_After(m) ==
    LET taken == Len(m.awaitingQue) = 0 /\ Len(m.readyQue) > 0
        m1 == IF taken THEN [m EXCEPT !.readyQue = Tail(@)] ELSE m
        m2 == IF Len(m1.readyQue) <= 2 /\ m1.capacityDynamic
              THEN [m1 EXCEPT !.capacity = @ + 1] ELSE m1
    IN  [mgr |-> m2, value |-> IF taken THEN Head(m.readyQue) ELSE NoCh]

\* _tryGettingCaptcha: the demand signal, then the head of the ready queue if
\* nobody is waiting
TryGettingCaptcha(m) ==
    LET m1 == IF Len(m.readyQue) <= 2 /\ m.capacityDynamic
              THEN [m EXCEPT !.capacity = @ + 1] ELSE m
    IN  IF Len(m1.awaitingQue) = 0 /\ Len(m1.readyQue) > 0
        THEN [mgr |-> [m1 EXCEPT !.readyQue = Tail(@)], value |-> Head(m1.readyQue)]
        ELSE [mgr |-> m1, value |-> NoCh]

\* popCaptcha() called for the call in slot s: the manager afterwards, and the
\* challenge handed over at once (NoCh when the caller was parked)
PopCaptcha(m, s) ==
    LET r == TryGettingCaptcha(m)
    IN  IF r.value # NoCh
        THEN r
        ELSE [mgr |-> [r.mgr EXCEPT !.awaitingQue = Append(@, s)], value |-> NoCh]

\* variant: the challenge is buffered whoever is parked
OnCreatedMgr_AlwaysBuffers(m, res) ==
    [m EXCEPT !.readyQue = Append(@, res)]

\* _onCreated: the manager afterwards
OnCreatedMgr(m, res) ==
    IF Len(m.awaitingQue) # 0
    THEN [m EXCEPT !.awaitingQue = Tail(@)]
    ELSE [m EXCEPT !.readyQue = Append(@, res)]

\* variant: the resolve function parked last is called
OnCreatedCalls_Lifo(m, cs, res) ==
    IF Len(m.awaitingQue) # 0
    THEN Settle(cs, m.awaitingQue[Len(m.awaitingQue)], res)
    ELSE cs

\* variant: every parked resolve function is called with res
OnCreatedCalls_Broadcast(m, cs, res) ==
    [s \in Slots |->
        IF \E i \in 1..Len(m.awaitingQue) : m.awaitingQue[i] = s
        THEN Settle(cs, s, res)[s]
        ELSE cs[s]]

\* _onCreated: the resolve function at the head of _awaitingQue is called with res
OnCreatedCalls(m, cs, res) ==
    IF Len(m.awaitingQue) # 0
    THEN Settle(cs, Head(m.awaitingQue), res)
    ELSE cs

\* variant: the parked consumers count as missing challenges
Deficit_CountsParked(m) ==
    IF m.capacity + Len(m.awaitingQue) > m.pendingCaptchas + Len(m.readyQue)
    THEN m.capacity + Len(m.awaitingQue) - (m.pendingCaptchas + Len(m.readyQue))
    ELSE 0

\* variant: the loop runs once more than there are challenges missing
Deficit_OneMore(m) ==
    IF m.capacity >= m.pendingCaptchas + Len(m.readyQue)
    THEN m.capacity - (m.pendingCaptchas + Len(m.readyQue)) + 1
    ELSE 0

\* the while loop of _checkForCaptchas: one _createCaptcha per missing challenge
Deficit(m) ==
    IF m.capacity > m.pendingCaptchas + Len(m.readyQue)
    THEN m.capacity - (m.pendingCaptchas + Len(m.readyQue))
    ELSE 0

\* the cutback timer's test: ready/capacity > capacityCutbackMinPercentage (0.9)
CutbackDue(m) == m.capacity > 2 /\ Len(m.readyQue) * 10 > 9 * m.capacity

AuthVars == <<authr, prefs, heap, now>>
MgrVars == <<mgr, creating, made>>

\* variant: the cutback timer is started whatever capacityDynamic says
Begin_CutbackAlways ==
    /\ mgr' = [mgr EXCEPT
                 !.providerJob = @ \/ mgr.forks,
                 !.tickLeak = @ \/ mgr.ticking = "live",
                 !.ticking = "live",
                 !.cutLeak = @ \/ mgr.cutback = "live",
                 !.cutback = "live"]
    /\ UNCHANGED <<creating, made, calls, last, AuthVars>>

\* begin(): forks the worker once, starts the tick timer and the cutback timer;
\* a timer handle that is overwritten while live keeps firing (tickLeak, cutLeak)
Begin ==
    /\ mgr' = [mgr EXCEPT
                 !.providerJob = @ \/ mgr.forks,
                 !.tickLeak = @ \/ mgr.ticking = "live",
                 !.ticking = "live",
                 !.cutLeak = IF mgr.capacityDynamic THEN @ \/ mgr.cutback = "live" ELSE @,
                 !.cutback = IF mgr.capacityDynamic THEN "live" ELSE @]
    /\ UNCHANGED <<creating, made, calls, last, AuthVars>>

\* variant: _checkForCaptchas does not look at _terminate
Tick_IgnoresTerminate ==
    /\ NoJob
    /\ mgr.ticking = "live" \/ mgr.tickLeak
    /\ mgr' = [mgr EXCEPT !.pendingCaptchas = @ + Deficit(mgr)]
    /\ creating' = creating + Deficit(mgr)
    /\ UNCHANGED <<made, calls, last, AuthVars>>

\* the tick timer fires: _checkForCaptchas
Tick ==
    /\ NoJob
    /\ mgr.ticking = "live" \/ mgr.tickLeak
    /\ LET n == IF mgr.terminate THEN 0 ELSE Deficit(mgr)
       IN  /\ mgr' = [mgr EXCEPT !.pendingCaptchas = @ + n]
           /\ creating' = creating + n
    /\ UNCHANGED <<made, calls, last, AuthVars>>

\* the worker was killed by terminate()
Killed == mgr.killed

\* one generator.create() succeeds.  Direct: the continuation of _createCaptcha.
\* Worker: the 'message' handler of begin() receives the challenge.
Created ==
    /\ creating > 0
    /\ made < MaxChallenges
    /\ \E answer \in Answers :
         LET res == Create(made + 1, answer)
         IN  /\ mgr' = [OnCreatedMgr(mgr, res) EXCEPT !.pendingCaptchas = @ - 1]
             /\ calls' = OnCreatedCalls(mgr, calls, res)
    /\ creating' = creating - 1
    /\ made' = made + 1
    /\ UNCHANGED <<last, AuthVars>>

\* one generator.create() fails.  Direct: the catch of _createCaptcha logs.
\* Worker: the 'message' handler receives {err}, logs and frees the slot.
CreateFailed ==
    /\ creating > 0
    /\ mgr' = IF mgr.forks THEN [mgr EXCEPT !.pendingCaptchas = @ - 1] ELSE mgr
    /\ creating' = creating - 1
    /\ UNCHANGED <<made, calls, last, AuthVars>>

\* a request the killed worker never answers
WorkerLost ==
    /\ Killed
    /\ creating > 0
    /\ creating' = creating - 1
    /\ UNCHANGED <<mgr, made, calls, last, AuthVars>>

\* the cutback timer fires
Cutback ==
    /\ NoJob
    /\ mgr.cutback = "live" \/ mgr.cutLeak
    /\ mgr' = IF CutbackDue(mgr) THEN [mgr EXCEPT !.capacity = @ - 1] ELSE mgr
    /\ UNCHANGED <<creating, made, calls, last, AuthVars>>

\* variant: terminate() drops the resolve functions of the parked consumers
Terminate_DropsParked ==
    /\ mgr' = [mgr EXCEPT
                 !.terminate = TRUE,
                 !.killed = @ \/ mgr.providerJob,
                 !.awaitingQue = << >>,
                 !.ticking = IF @ = "unset" THEN @ ELSE "closed",
                 !.cutback = IF @ = "unset" THEN @ ELSE "closed"]
    /\ UNCHANGED <<creating, made, calls, last, AuthVars>>

\* terminate(): closes the timers it holds handles of and kills the worker
Terminate ==
    /\ mgr' = [mgr EXCEPT
                 !.terminate = TRUE,
                 !.killed = @ \/ mgr.providerJob,
                 !.ticking = IF @ = "unset" THEN @ ELSE "closed",
                 !.cutback = IF @ = "unset" THEN @ ELSE "closed"]
    /\ UNCHANGED <<creating, made, calls, last, AuthVars>>

\* some consumer calls popCaptcha()
Pop ==
    /\ HasFreeSlot
    /\ LET s == FreeSlot
           r == PopCaptcha(mgr, s)
       IN  /\ mgr' = r.mgr
           /\ calls' = [calls EXCEPT ![s] =
                  [IdleCall EXCEPT !.kind = "pop",
                                   !.pc = IF r.value # NoCh THEN "settled" ELSE "parked",
                                   !.value = r.value]]
    /\ UNCHANGED <<creating, made, last, AuthVars>>

\* the consumer's await popCaptcha() returns calls[s].value
PopReturns(s) ==
    /\ calls[s].kind = "pop"
    /\ calls[s].pc = "settled"
    /\ calls' = [calls EXCEPT ![s] = IdleCall]
    /\ UNCHANGED <<mgr, creating, made, last, AuthVars>>

(***************************************************************************)
(* AuthRecord                                                              *)
(***************************************************************************)
\* String.prototype.toLowerCase works on the code points of the string: a high
\* surrogate followed by a low surrogate is one code point, any other code unit
\* is a code point of its own
IsHighSurrogate(u) == u >= 55296 /\ u <= 56319

IsLowSurrogate(u) == u >= 56320 /\ u <= 57343

RECURSIVE CodePoints(_, _)
CodePoints(str, i) ==
    IF i > Len(str) THEN << >>
    ELSE IF i < Len(str) /\ IsHighSurrogate(str[i]) /\ IsLowSurrogate(str[i + 1])
    THEN <<65536 + (str[i] - 55296) * 1024 + (str[i + 1] - 56320)>> \o CodePoints(str, i + 2)
    ELSE <<str[i]>> \o CodePoints(str, i + 1)

\* the code units of the code points cps
RECURSIVE CodeUnits(_)
CodeUnits(cps) ==
    IF cps = << >> THEN << >>
    ELSE (IF Head(cps) >= 65536
          THEN <<55296 + ((Head(cps) - 65536) \div 1024), 56320 + ((Head(cps) - 65536) % 1024)>>
          ELSE <<Head(cps)>>) \o CodeUnits(Tail(cps))

\* The simple lower-case mappings of the Unicode Character Database (version
\* 17.0), as runs <<first, last, step, delta>> in ascending order: the code
\* points first, first + step, ... up to last map to themselves plus delta
LowerTable ==
    <<<<65, 90, 1, 32>>, <<192, 214, 1, 32>>, <<216, 222, 1, 32>>, <<256, 302, 2, 1>>,
      <<306, 310, 2, 1>>, <<313, 327, 2, 1>>, <<330, 374, 2, 1>>, <<376, 376, 1, -121>>,
      <<377, 381, 2, 1>>, <<385, 385, 1, 210>>, <<386, 388, 2, 1>>, <<390, 390, 1, 206>>,
      <<391, 391, 1, 1>>, <<393, 394, 1, 205>>, <<395, 395, 1, 1>>, <<398, 398, 1, 79>>,
      <<399, 399, 1, 202>>, <<400, 400, 1, 203>>, <<401, 401, 1, 1>>, <<403, 403, 1, 205>>,
      <<404, 404, 1, 207>>, <<406, 406, 1, 211>>, <<407, 407, 1, 209>>, <<408, 408, 1, 1>>,
      <<412, 412, 1, 211>>, <<413, 413, 1, 213>>, <<415, 415, 1, 214>>, <<416, 420, 2, 1>>,
      <<422, 422, 1, 218>>, <<423, 423, 1, 1>>, <<425, 425, 1, 218>>, <<428, 428, 1, 1>>,
      <<430, 430, 1, 218>>, <<431, 431, 1, 1>>, <<433, 434, 1, 217>>, <<435, 437, 2, 1>>,
      <<439, 439, 1, 219>>, <<440, 440, 1, 1>>, <<444, 444, 1, 1>>, <<452, 452, 1, 2>>,
      <<453, 453, 1, 1>>, <<455, 455, 1, 2>>, <<456, 456, 1, 1>>, <<458, 458, 1, 2>>,
      <<459, 475, 2, 1>>, <<478, 494, 2, 1>>, <<497, 497, 1, 2>>, <<498, 500, 2, 1>>,
      <<502, 502, 1, -97>>, <<503, 503, 1, -56>>, <<504, 542, 2, 1>>, <<544, 544, 1, -130>>,
      <<546, 562, 2, 1>>, <<570, 570, 1, 10795>>, <<571, 571, 1, 1>>, <<573, 573, 1, -163>>,
      <<574, 574, 1, 10792>>, <<577, 577, 1, 1>>, <<579, 579, 1, -195>>, <<580, 580, 1, 69>>,
      <<581, 581, 1, 71>>, <<582, 590, 2, 1>>, <<880, 882, 2, 1>>, <<886, 886, 1, 1>>,
      <<895, 895, 1, 116>>, <<902, 902, 1, 38>>, <<904, 906, 1, 37>>, <<908, 908, 1, 64>>,
      <<910, 911, 1, 63>>, <<913, 929, 1, 32>>, <<931, 939, 1, 32>>, <<975, 975, 1, 8>>,
      <<984, 1006, 2, 1>>, <<1012, 1012, 1, -60>>, <<1015, 1015, 1, 1>>, <<1017, 1017, 1, -7>>,
      <<1018, 1018, 1, 1>>, <<1021, 1023, 1, -130>>, <<1024, 1039, 1, 80>>, <<1040, 1071, 1, 32>>,
      <<1120, 1152, 2, 1>>, <<1162, 1214, 2, 1>>, <<1216, 1216, 1, 15>>, <<1217, 1229, 2, 1>>,
      <<1232, 1326, 2, 1>>, <<1329, 1366, 1, 48>>, <<4256, 4293, 1, 7264>>, <<4295, 4295, 1, 7264>>,
      <<4301, 4301, 1, 7264>>, <<5024, 5103, 1, 38864>>, <<5104, 5109, 1, 8>>, <<7305, 7305, 1, 1>>,
      <<7312, 7354, 1, -3008>>, <<7357, 7359, 1, -3008>>, <<7680, 7828, 2, 1>>, <<7838, 7838, 1, -7615>>,
      <<7840, 7934, 2, 1>>, <<7944, 7951, 1, -8>>, <<7960, 7965, 1, -8>>, <<7976, 7983, 1, -8>>,
      <<7992, 7999, 1, -8>>, <<8008, 8013, 1, -8>>, <<8025, 8031, 2, -8>>, <<8040, 8047, 1, -8>>,
      <<8072, 8079, 1, -8>>, <<8088, 8095, 1, -8>>, <<8104, 8111, 1, -8>>, <<8120, 8121, 1, -8>>,
      <<8122, 8123, 1, -74>>, <<8124, 8124, 1, -9>>, <<8136, 8139, 1, -86>>, <<8140, 8140, 1, -9>>,
      <<8152, 8153, 1, -8>>, <<8154, 8155, 1, -100>>, <<8168, 8169, 1, -8>>, <<8170, 8171, 1, -112>>,
      <<8172, 8172, 1, -7>>, <<8184, 8185, 1, -128>>, <<8186, 8187, 1, -126>>, <<8188, 8188, 1, -9>>,
      <<8486, 8486, 1, -7517>>, <<8490, 8490, 1, -8383>>, <<8491, 8491, 1, -8262>>, <<8498, 8498, 1, 28>>,
      <<8544, 8559, 1, 16>>, <<8579, 8579, 1, 1>>, <<9398, 9423, 1, 26>>, <<11264, 11311, 1, 48>>,
      <<11360, 11360, 1, 1>>, <<11362, 11362, 1, -10743>>, <<11363, 11363, 1, -3814>>, <<11364, 11364, 1, -10727>>,
      <<11367, 11371, 2, 1>>, <<11373, 11373, 1, -10780>>, <<11374, 11374, 1, -10749>>, <<11375, 11375, 1, -10783>>,
      <<11376, 11376, 1, -10782>>, <<11378, 11378, 1, 1>>, <<11381, 11381, 1, 1>>, <<11390, 11391, 1, -10815>>,
      <<11392, 11490, 2, 1>>, <<11499, 11501, 2, 1>>, <<11506, 11506, 1, 1>>, <<42560, 42604, 2, 1>>,
      <<42624, 42650, 2, 1>>, <<42786, 42798, 2, 1>>, <<42802, 42862, 2, 1>>, <<42873, 42875, 2, 1>>,
      <<42877, 42877, 1, -35332>>, <<42878, 42886, 2, 1>>, <<42891, 42891, 1, 1>>, <<42893, 42893, 1, -42280>>,
      <<42896, 42898, 2, 1>>, <<42902, 42920, 2, 1>>, <<42922, 42922, 1, -42308>>, <<42923, 42923, 1, -42319>>,
      <<42924, 42924, 1, -42315>>, <<42925, 42925, 1, -42305>>, <<42926, 42926, 1, -42308>>, <<42928, 42928, 1, -42258>>,
      <<42929, 42929, 1, -42282>>, <<42930, 42930, 1, -42261>>, <<42931, 42931, 1, 928>>, <<42932, 42946, 2, 1>>,
      <<42948, 42948, 1, -48>>, <<42949, 42949, 1, -42307>>, <<42950, 42950, 1, -35384>>, <<42951, 42953, 2, 1>>,
      <<42955, 42955, 1, -42343>>, <<42956, 42970, 2, 1>>, <<42972, 42972, 1, -42561>>, <<42997, 42997, 1, 1>>,
      <<65313, 65338, 1, 32>>, <<66560, 66599, 1, 40>>, <<66736, 66771, 1, 40>>, <<66928, 66938, 1, 39>>,
      <<66940, 66954, 1, 39>>, <<66956, 66962, 1, 39>>, <<66964, 66965, 1, 39>>, <<68736, 68786, 1, 64>>,
      <<68944, 68965, 1, 32>>, <<71840, 71871, 1, 32>>, <<93760, 93791, 1, 32>>, <<93856, 93880, 1, 27>>,
      <<125184, 125217, 1, 34>>>>

\* The code points with the property Cased that are not Case_Ignorable, as
\* ranges <<first, last>> in ascending order
CasedTable ==
    <<<<65, 90>>, <<97, 122>>, <<170, 170>>, <<181, 181>>, <<186, 186>>, <<192, 214>>,
      <<216, 246>>, <<248, 442>>, <<444, 447>>, <<452, 659>>, <<662, 687>>, <<880, 883>>,
      <<886, 887>>, <<891, 893>>, <<895, 895>>, <<902, 902>>, <<904, 906>>, <<908, 908>>,
      <<910, 929>>, <<931, 1013>>, <<1015, 1153>>, <<1162, 1327>>, <<1329, 1366>>, <<1376, 1416>>,
      <<4256, 4293>>, <<4295, 4295>>, <<4301, 4301>>, <<4304, 4346>>, <<4349, 4351>>, <<5024, 5109>>,
      <<5112, 5117>>, <<7296, 7306>>, <<7312, 7354>>, <<7357, 7359>>, <<7424, 7467>>, <<7531, 7543>>,
      <<7545, 7578>>, <<7680, 7957>>, <<7960, 7965>>, <<7968, 8005>>, <<8008, 8013>>, <<8016, 8023>>,
      <<8025, 8025>>, <<8027, 8027>>, <<8029, 8029>>, <<8031, 8061>>, <<8064, 8116>>, <<8118, 8124>>,
      <<8126, 8126>>, <<8130, 8132>>, <<8134, 8140>>, <<8144, 8147>>, <<8150, 8155>>, <<8160, 8172>>,
      <<8178, 8180>>, <<8182, 8188>>, <<8450, 8450>>, <<8455, 8455>>, <<8458, 8467>>, <<8469, 8469>>,
      <<8473, 8477>>, <<8484, 8484>>, <<8486, 8486>>, <<8488, 8488>>, <<8490, 8493>>, <<8495, 8500>>,
      <<8505, 8505>>, <<8508, 8511>>, <<8517, 8521>>, <<8526, 8526>>, <<8544, 8575>>, <<8579, 8580>>,
      <<9398, 9449>>, <<11264, 11387>>, <<11390, 11492>>, <<11499, 11502>>, <<11506, 11507>>, <<11520, 11557>>,
      <<11559, 11559>>, <<11565, 11565>>, <<42560, 42605>>, <<42624, 42651>>, <<42786, 42863>>, <<42865, 42887>>,
      <<42891, 42894>>, <<42896, 42972>>, <<42997, 42998>>, <<43002, 43002>>, <<43824, 43866>>, <<43872, 43880>>,
      <<43888, 43967>>, <<64256, 64262>>, <<64275, 64279>>, <<65313, 65338>>, <<65345, 65370>>, <<66560, 66639>>,
      <<66736, 66771>>, <<66776, 66811>>, <<66928, 66938>>, <<66940, 66954>>, <<66956, 66962>>, <<66964, 66965>>,
      <<66967, 66977>>, <<66979, 66993>>, <<66995, 67001>>, <<67003, 67004>>, <<68736, 68786>>, <<68800, 68850>>,
      <<68944, 68965>>, <<68976, 68997>>, <<71840, 71903>>, <<93760, 93823>>, <<93856, 93880>>, <<93883, 93907>>,
      <<119808, 119892>>, <<119894, 119964>>, <<119966, 119967>>, <<119970, 119970>>, <<119973, 119974>>, <<119977, 119980>>,
      <<119982, 119993>>, <<119995, 119995>>, <<119997, 120003>>, <<120005, 120069>>, <<120071, 120074>>, <<120077, 120084>>,
      <<120086, 120092>>, <<120094, 120121>>, <<120123, 120126>>, <<120128, 120132>>, <<120134, 120134>>, <<120138, 120144>>,
      <<120146, 120485>>, <<120488, 120512>>, <<120514, 120538>>, <<120540, 120570>>, <<120572, 120596>>, <<120598, 120628>>,
      <<120630, 120654>>, <<120656, 120686>>, <<120688, 120712>>, <<120714, 120744>>, <<120746, 120770>>, <<120772, 120779>>,
      <<122624, 122633>>, <<122635, 122654>>, <<122661, 122666>>, <<125184, 125251>>, <<127280, 127305>>, <<127312, 127337>>,
      <<127344, 127369>>>>

\* The code points with the property Case_Ignorable, as ranges <<first, last>>
\* in ascending order
CaseIgnorableTable ==
    <<<<39, 39>>, <<46, 46>>, <<58, 58>>, <<94, 94>>, <<96, 96>>, <<168, 168>>,
      <<173, 173>>, <<175, 175>>, <<180, 180>>, <<183, 184>>, <<688, 879>>, <<884, 885>>,
      <<890, 890>>, <<900, 901>>, <<903, 903>>, <<1155, 1161>>, <<1369, 1369>>, <<1375, 1375>>,
      <<1425, 1469>>, <<1471, 1471>>, <<1473, 1474>>, <<1476, 1477>>, <<1479, 1479>>, <<1524, 1524>>,
      <<1536, 1541>>, <<1552, 1562>>, <<1564, 1564>>, <<1600, 1600>>, <<1611, 1631>>, <<1648, 1648>>,
      <<1750, 1757>>, <<1759, 1768>>, <<1770, 1773>>, <<1807, 1807>>, <<1809, 1809>>, <<1840, 1866>>,
      <<1958, 1968>>, <<2027, 2037>>, <<2042, 2042>>, <<2045, 2045>>, <<2070, 2093>>, <<2137, 2139>>,
      <<2184, 2184>>, <<2192, 2193>>, <<2199, 2207>>, <<2249, 2306>>, <<2362, 2362>>, <<2364, 2364>>,
      <<2369, 2376>>, <<2381, 2381>>, <<2385, 2391>>, <<2402, 2403>>, <<2417, 2417>>, <<2433, 2433>>,
      <<2492, 2492>>, <<2497, 2500>>, <<2509, 2509>>, <<2530, 2531>>, <<2558, 2558>>, <<2561, 2562>>,
      <<2620, 2620>>, <<2625, 2626>>, <<2631, 2632>>, <<2635, 2637>>, <<2641, 2641>>, <<2672, 2673>>,
      <<2677, 2677>>, <<2689, 2690>>, <<2748, 2748>>, <<2753, 2757>>, <<2759, 2760>>, <<2765, 2765>>,
      <<2786, 2787>>, <<2810, 2815>>, <<2817, 2817>>, <<2876, 2876>>, <<2879, 2879>>, <<2881, 2884>>,
      <<2893, 2893>>, <<2901, 2902>>, <<2914, 2915>>, <<2946, 2946>>, <<3008, 3008>>, <<3021, 3021>>,
      <<3072, 3072>>, <<3076, 3076>>, <<3132, 3132>>, <<3134, 3136>>, <<3142, 3144>>, <<3146, 3149>>,
      <<3157, 3158>>, <<3170, 3171>>, <<3201, 3201>>, <<3260, 3260>>, <<3263, 3263>>, <<3270, 3270>>,
      <<3276, 3277>>, <<3298, 3299>>, <<3328, 3329>>, <<3387, 3388>>, <<3393, 3396>>, <<3405, 3405>>,
      <<3426, 3427>>, <<3457, 3457>>, <<3530, 3530>>, <<3538, 3540>>, <<3542, 3542>>, <<3633, 3633>>,
      <<3636, 3642>>, <<3654, 3662>>, <<3761, 3761>>, <<3764, 3772>>, <<3782, 3782>>, <<3784, 3790>>,
      <<3864, 3865>>, <<3893, 3893>>, <<3895, 3895>>, <<3897, 3897>>, <<3953, 3966>>, <<3968, 3972>>,
      <<3974, 3975>>, <<3981, 3991>>, <<3993, 4028>>, <<4038, 4038>>, <<4141, 4144>>, <<4146, 4151>>,
      <<4153, 4154>>, <<4157, 4158>>, <<4184, 4185>>, <<4190, 4192>>, <<4209, 4212>>, <<4226, 4226>>,
      <<4229, 4230>>, <<4237, 4237>>, <<4253, 4253>>, <<4348, 4348>>, <<4957, 4959>>, <<5906, 5908>>,
      <<5938, 5939>>, <<5970, 5971>>, <<6002, 6003>>, <<6068, 6069>>, <<6071, 6077>>, <<6086, 6086>>,
      <<6089, 6099>>, <<6103, 6103>>, <<6109, 6109>>, <<6155, 6159>>, <<6211, 6211>>, <<6277, 6278>>,
      <<6313, 6313>>, <<6432, 6434>>, <<6439, 6440>>, <<6450, 6450>>, <<6457, 6459>>, <<6679, 6680>>,
      <<6683, 6683>>, <<6742, 6742>>, <<6744, 6750>>, <<6752, 6752>>, <<6754, 6754>>, <<6757, 6764>>,
      <<6771, 6780>>, <<6783, 6783>>, <<6823, 6823>>, <<6832, 6877>>, <<6880, 6891>>, <<6912, 6915>>,
      <<6964, 6964>>, <<6966, 6970>>, <<6972, 6972>>, <<6978, 6978>>, <<7019, 7027>>, <<7040, 7041>>,
      <<7074, 7077>>, <<7080, 7081>>, <<7083, 7085>>, <<7142, 7142>>, <<7144, 7145>>, <<7149, 7149>>,
      <<7151, 7153>>, <<7212, 7219>>, <<7222, 7223>>, <<7288, 7293>>, <<7376, 7378>>, <<7380, 7392>>,
      <<7394, 7400>>, <<7405, 7405>>, <<7412, 7412>>, <<7416, 7417>>, <<7468, 7530>>, <<7544, 7544>>,
      <<7579, 7679>>, <<8125, 8125>>, <<8127, 8129>>, <<8141, 8143>>, <<8157, 8159>>, <<8173, 8175>>,
      <<8189, 8190>>, <<8203, 8207>>, <<8216, 8217>>, <<8228, 8228>>, <<8231, 8231>>, <<8234, 8238>>,
      <<8288, 8292>>, <<8294, 8303>>, <<8305, 8305>>, <<8319, 8319>>, <<8336, 8348>>, <<8400, 8432>>,
      <<11388, 11389>>, <<11503, 11505>>, <<11631, 11631>>, <<11647, 11647>>, <<11744, 11775>>, <<11823, 11823>>,
      <<12293, 12293>>, <<12330, 12333>>, <<12337, 12341>>, <<12347, 12347>>, <<12441, 12446>>, <<12540, 12542>>,
      <<40981, 40981>>, <<42232, 42237>>, <<42508, 42508>>, <<42607, 42610>>, <<42612, 42621>>, <<42623, 42623>>,
      <<42652, 42655>>, <<42736, 42737>>, <<42752, 42785>>, <<42864, 42864>>, <<42888, 42890>>, <<42993, 42996>>,
      <<43000, 43001>>, <<43010, 43010>>, <<43014, 43014>>, <<43019, 43019>>, <<43045, 43046>>, <<43052, 43052>>,
      <<43204, 43205>>, <<43232, 43249>>, <<43263, 43263>>, <<43302, 43309>>, <<43335, 43345>>, <<43392, 43394>>,
      <<43443, 43443>>, <<43446, 43449>>, <<43452, 43453>>, <<43471, 43471>>, <<43493, 43494>>, <<43561, 43566>>,
      <<43569, 43570>>, <<43573, 43574>>, <<43587, 43587>>, <<43596, 43596>>, <<43632, 43632>>, <<43644, 43644>>,
      <<43696, 43696>>, <<43698, 43700>>, <<43703, 43704>>, <<43710, 43711>>, <<43713, 43713>>, <<43741, 43741>>,
      <<43756, 43757>>, <<43763, 43764>>, <<43766, 43766>>, <<43867, 43871>>, <<43881, 43883>>, <<44005, 44005>>,
      <<44008, 44008>>, <<44013, 44013>>, <<64286, 64286>>, <<64434, 64450>>, <<65024, 65039>>, <<65043, 65043>>,
      <<65056, 65071>>, <<65106, 65106>>, <<65109, 65109>>, <<65279, 65279>>, <<65287, 65287>>, <<65294, 65294>>,
      <<65306, 65306>>, <<65342, 65342>>, <<65344, 65344>>, <<65392, 65392>>, <<65438, 65439>>, <<65507, 65507>>,
      <<65529, 65531>>, <<66045, 66045>>, <<66272, 66272>>, <<66422, 66426>>, <<67456, 67461>>, <<67463, 67504>>,
      <<67506, 67514>>, <<68097, 68099>>, <<68101, 68102>>, <<68108, 68111>>, <<68152, 68154>>, <<68159, 68159>>,
      <<68325, 68326>>, <<68900, 68903>>, <<68942, 68942>>, <<68969, 68973>>, <<68975, 68975>>, <<69291, 69292>>,
      <<69317, 69317>>, <<69370, 69375>>, <<69446, 69456>>, <<69506, 69509>>, <<69633, 69633>>, <<69688, 69702>>,
      <<69744, 69744>>, <<69747, 69748>>, <<69759, 69761>>, <<69811, 69814>>, <<69817, 69818>>, <<69821, 69821>>,
      <<69826, 69826>>, <<69837, 69837>>, <<69888, 69890>>, <<69927, 69931>>, <<69933, 69940>>, <<70003, 70003>>,
      <<70016, 70017>>, <<70070, 70078>>, <<70089, 70092>>, <<70095, 70095>>, <<70191, 70193>>, <<70196, 70196>>,
      <<70198, 70199>>, <<70206, 70206>>, <<70209, 70209>>, <<70367, 70367>>, <<70371, 70378>>, <<70400, 70401>>,
      <<70459, 70460>>, <<70464, 70464>>, <<70502, 70508>>, <<70512, 70516>>, <<70587, 70592>>, <<70606, 70606>>,
      <<70608, 70608>>, <<70610, 70610>>, <<70625, 70626>>, <<70712, 70719>>, <<70722, 70724>>, <<70726, 70726>>,
      <<70750, 70750>>, <<70835, 70840>>, <<70842, 70842>>, <<70847, 70848>>, <<70850, 70851>>, <<71090, 71093>>,
      <<71100, 71101>>, <<71103, 71104>>, <<71132, 71133>>, <<71219, 71226>>, <<71229, 71229>>, <<71231, 71232>>,
      <<71339, 71339>>, <<71341, 71341>>, <<71344, 71349>>, <<71351, 71351>>, <<71453, 71453>>, <<71455, 71455>>,
      <<71458, 71461>>, <<71463, 71467>>, <<71727, 71735>>, <<71737, 71738>>, <<71995, 71996>>, <<71998, 71998>>,
      <<72003, 72003>>, <<72148, 72151>>, <<72154, 72155>>, <<72160, 72160>>, <<72193, 72202>>, <<72243, 72248>>,
      <<72251, 72254>>, <<72263, 72263>>, <<72273, 72278>>, <<72281, 72283>>, <<72330, 72342>>, <<72344, 72345>>,
      <<72544, 72544>>, <<72546, 72548>>, <<72550, 72550>>, <<72752, 72758>>, <<72760, 72765>>, <<72767, 72767>>,
      <<72850, 72871>>, <<72874, 72880>>, <<72882, 72883>>, <<72885, 72886>>, <<73009, 73014>>, <<73018, 73018>>,
      <<73020, 73021>>, <<73023, 73029>>, <<73031, 73031>>, <<73104, 73105>>, <<73109, 73109>>, <<73111, 73111>>,
      <<73177, 73177>>, <<73459, 73460>>, <<73472, 73473>>, <<73526, 73530>>, <<73536, 73536>>, <<73538, 73538>>,
      <<73562, 73562>>, <<78896, 78912>>, <<78919, 78933>>, <<90398, 90409>>, <<90413, 90415>>, <<92912, 92916>>,
      <<92976, 92982>>, <<92992, 92995>>, <<93504, 93506>>, <<93547, 93548>>, <<94031, 94031>>, <<94095, 94111>>,
      <<94176, 94177>>, <<94179, 94180>>, <<94194, 94195>>, <<110576, 110579>>, <<110581, 110587>>, <<110589, 110590>>,
      <<113821, 113822>>, <<113824, 113827>>, <<118528, 118573>>, <<118576, 118598>>, <<119143, 119145>>, <<119155, 119170>>,
      <<119173, 119179>>, <<119210, 119213>>, <<119362, 119364>>, <<121344, 121398>>, <<121403, 121452>>, <<121461, 121461>>,
      <<121476, 121476>>, <<121499, 121503>>, <<121505, 121519>>, <<122880, 122886>>, <<122888, 122904>>, <<122907, 122913>>,
      <<122915, 122916>>, <<122918, 122922>>, <<122928, 122989>>, <<123023, 123023>>, <<123184, 123197>>, <<123566, 123566>>,
      <<123628, 123631>>, <<124139, 124143>>, <<124398, 124399>>, <<124643, 124643>>, <<124646, 124646>>, <<124654, 124655>>,
      <<124661, 124661>>, <<124671, 124671>>, <<125136, 125142>>, <<125252, 125259>>, <<127995, 127999>>, <<917505, 917505>>,
      <<917536, 917631>>, <<917760, 917999>>>>

\* the place in tab, among lo..hi, of the last run that begins at or before c
\* (lo - 1 if there is none), by bisection
RECURSIVE Find(_, _, _, _)
Find(tab, c, lo, hi) ==
    IF lo > hi THEN hi
    ELSE LET mid == (lo + hi) \div 2
         IN  IF tab[mid][1] <= c THEN Find(tab, c, mid + 1, hi)
             ELSE Find(tab, c, lo, mid - 1)

\* the code point c is in the run r of LowerTable
InRun(c, r) == c >= r[1] /\ c <= r[2] /\ (c - r[1]) % r[3] = 0

\* the lower-case mapping of one code point: I with dot above becomes i and
\* the combining dot above (SpecialCasing), every other code point takes its
\* simple mapping
LowerCase(c) ==
    LET n == Find(LowerTable, c, 1, Len(LowerTable))
    IN  IF c = 304 THEN <<105, 775>>
        ELSE IF n > 0 /\ InRun(c, LowerTable[n]) THEN <<c + LowerTable[n][4]>>
        ELSE <<c>>

\* c is case-ignorable
CaseIgnorable(c) ==
    LET n == Find(CaseIgnorableTable, c, 1, Len(CaseIgnorableTable))
    IN  n > 0 /\ c <= CaseIgnorableTable[n][2]

\* c is a cased letter that is not case-ignorable
Cased(c) ==
    LET n == Find(CasedTable, c, 1, Len(CasedTable))
    IN  n > 0 /\ c <= CasedTable[n][2]

\* the condition Final_Sigma for the capital sigma at place i: before it, past
\* any case-ignorable code points, comes a cased letter, and after it, past
\* any case-ignorable code points, comes none
FinalSigma(cps, i) ==
    LET before == {j \in 1..(i - 1) : ~CaseIgnorable(cps[j])}
        after == {j \in (i + 1)..Len(cps) : ~CaseIgnorable(cps[j])}
    IN  /\ cps[i] = 931
        /\ before # {}
        /\ Cased(cps[CHOOSE j \in before : \A k \in before : k <= j])
        /\ after = {} \/ ~Cased(cps[CHOOSE j \in after : \A k \in after : j <= k])

RECURSIVE LowerFrom(_, _)
LowerFrom(cps, i) ==
    IF i > Len(cps) THEN << >>
    ELSE (IF FinalSigma(cps, i) THEN <<962>> ELSE LowerCase(cps[i])) \o LowerFrom(cps, i + 1)

\* String.prototype.toLowerCase
ToLowerCase(str) == CodeUnits(LowerFrom(CodePoints(str, 1), 1))

RECURSIVE Insert(_, _)
Insert(c, sorted) ==
    IF sorted = << >> THEN <<c>>
    ELSE IF c <= Head(sorted) THEN <<c>> \o sorted
    ELSE <<Head(sorted)>> \o Insert(c, Tail(sorted))

\* str.split('').sort().join(''): the code units in ascending order
RECURSIVE SortChars(_)
SortChars(str) ==
    IF str = << >> THEN << >> ELSE Insert(Head(str), SortChars(Tail(str)))

\* the default customChecker of the constructor
DefaultChecker(ans1, ans2) ==
    SortChars(ToLowerCase(ans1)) = SortChars(ToLowerCase(ans2))

\* a slot of the heap that holds no object
NoRec ==
    [live |-> FALSE, authd |-> FALSE, wrong |-> 0, correct |-> 0, lastLimitTime |-> 0,
     lastDownloadTime |-> 0, lastAuthTime |-> 0, captcha |-> NoCh]

\* new AuthRecord(authPreferences)
NewRecord ==
    [live |-> TRUE, authd |-> FALSE, wrong |-> 0, correct |-> 0, lastLimitTime |-> 0,
     lastDownloadTime |-> now, lastAuthTime |-> 0, captcha |-> NoCh]

\* variant: an authentication lasts for ever
Expired_Never(r) == FALSE

\* variant: the timeout runs from the issue of the last challenge
Expired_FromIssue(r) ==
    r.lastAuthTime # 0 /\ now - r.lastDownloadTime > prefs.authTimeout

\* variant: the test lastAuthTime !== 0 is left out
Expired_Unauthenticated(r) == now - r.lastAuthTime > prefs.authTimeout

\* expired()
Expired(r) == r.lastAuthTime # 0 /\ now - r.lastAuthTime > prefs.authTimeout

\* _authenticate()
Authenticate(r) ==
    IF ~r.authd THEN [r EXCEPT !.authd = TRUE, !.lastAuthTime = now] ELSE r

\* variant: every write of the counter authenticates
SetCorrect_NoThreshold(r, value) == Authenticate([r EXCEPT !.correct = value])

\* set correct(value)
SetCorrect(r, value) ==
    LET r1 == [r EXCEPT !.correct = value]
    IN  IF r1.correct >= prefs.requiredAnswers * Half THEN Authenticate(r1) ELSE r1

\* variant: limited already at maxWrong
IsLimited_AtMax(r) == r.wrong >= prefs.maxWrong * Half

\* isLimited()
IsLimited(r) == r.wrong > prefs.maxWrong * Half

\* variant: the setter writes on a limited record as well
SetWrong_Unguarded(r, value) ==
    LET r1 == [r EXCEPT !.wrong = value]
    IN  IF IsLimited(r1) THEN [r1 EXCEPT !.lastLimitTime = now] ELSE r1

\* variant: a write on a limited record is dropped but restarts the cooldown
SetWrong_Restamps(r, value) ==
    IF ~IsLimited(r)
    THEN LET r1 == [r EXCEPT !.wrong = value]
         IN  IF IsLimited(r1) THEN [r1 EXCEPT !.lastLimitTime = now] ELSE r1
    ELSE [r EXCEPT !.lastLimitTime = now]

\* set wrong(value)
SetWrong(r, value) ==
    IF ~IsLimited(r)
    THEN LET r1 == [r EXCEPT !.wrong = value]
         IN  IF IsLimited(r1) THEN [r1 EXCEPT !.lastLimitTime = now] ELSE r1
    ELSE r

\* checkAnswer(ans)
CheckAnswer(r, ans) == DefaultChecker(ans, r.captcha.answer)

\* getChallenge(): the default customChallenger returns captcha.data
GetChallenge(r) == r.captcha.id

\* variant: one wrong answer is dropped instead of all
TryDroppingWrong_One(r) ==
    IF r.wrong > prefs.maxWrong * Half /\ now - r.lastLimitTime > prefs.dropWrongAfter
    THEN [r EXCEPT !.wrong = @ - Half, !.lastDownloadTime = now]
    ELSE r

\* tryDroppingWrong()
TryDroppingWrong(r) ==
    IF IsLimited(r) /\ now - r.lastLimitTime > prefs.dropWrongAfter
    THEN [r EXCEPT !.wrong = 0, !.lastDownloadTime = now]
    ELSE r

\* variant: no answer is too late
TookTooLong_Never(r) == FALSE

\* tookTooLong()
TookTooLong(r) == now - r.lastDownloadTime > prefs.answerTimeout

\* variant: an answer after exactly tooFast is too fast as well
WasTooFast_Inclusive(r) == now - r.lastDownloadTime <= prefs.tooFast

\* variant: no answer is too fast
WasTooFast_Never(r) == FALSE

\* wasTooFast()
WasTooFast(r) == now - r.lastDownloadTime < prefs.tooFast

(***************************************************************************)
(* CaptchaAuthr                                                            *)
(***************************************************************************)
\* The authPreferences of the constructor.  Times are in units of the model's
\* clock; maxWrong and requiredAnswers are whole numbers, onRegenWrong and
\* wrongOnTooLong are counted in halves (1 is the default 0.5).  provider is
\* "mgr" (the CaptchaMgr) or "flaky" (a provider whose popCaptcha() may reject
\* instead of asking the CaptchaMgr); customChecker and customChallenger are
\* "default" or "throws".
AuthPreferences(requiredAnswers, resetOnWrong, provider, checker, challenger) ==
    [provider |-> provider,
     maxWrong |-> 2,
     dropWrongAfter |-> 2,
     requiredAnswers |-> requiredAnswers,
     resetOnWrong |-> resetOnWrong,
     answerTimeout |-> 2,
     onRegenWrong |-> 1,
     wrongOnTooLong |-> 1,
     tooFast |-> 1,
     authTimeout |-> 1,
     customChecker |-> checker,
     customChallenger |-> challenger]

\* getRecord(id): the address of the record, 0 when the map has none
GetRecord(a, id) == a.map[id]

\* authSucceeded(stateVal)
AuthSucceeded(stateVal) == stateVal.state = "success"

\* isAuthd(id)
IsAuthd(id) ==
    /\ GetRecord(authr, id) # 0
    /\ heap[GetRecord(authr, id)].authd
    /\ ~Expired(heap[GetRecord(authr, id)])

\* the objects still referenced from the map or from a suspended call
Collect(h, m, cs) ==
    [x \in Addrs |->
        IF (\E i \in Ids : m[i] = x) \/ (\E s \in Slots : cs[s].rec = x)
        THEN h[x] ELSE NoRec]

\* where a new AuthRecord is placed
FreeAddr(h) == CHOOSE x \in Addrs : ~h[x].live /\ \A y \in Addrs : y < x => h[y].live

\* variant: the sweep notes its time and deletes nothing
DelOld_NoDelete(a) ==
    IF now - a.lastOldCheck > prefs.authTimeout
    THEN [a EXCEPT !.lastOldCheck = now]
    ELSE a

\* variant: the sweep deletes the records of the other ids, expired or not
DelOld_All(a) ==
    IF now - a.lastOldCheck > prefs.authTimeout
    THEN [lastOldCheck |-> now, map |-> [i \in Ids |-> 0]]
    ELSE a

\* _delOld(): the sweep of expired records, at most once per authTimeout
DelOld(a) ==
    IF now - a.lastOldCheck > prefs.authTimeout
    THEN [lastOldCheck |-> now,
          map |-> [i \in Ids |->
                     IF a.map[i] # 0 /\ Expired(heap[a.map[i]]) THEN 0 ELSE a.map[i]]]
    ELSE a

\* What the synchronous part of a handler decided for the existing record r:
\* the record afterwards, the state to report, whether genCaptcha() is awaited
\* first (gen), whether the result carries the challenge (withQ), and whether
\* the handler threw (threw).
Outcome(r, state, gen, withQ) ==
    [rec |-> r, state |-> state, gen |-> gen, withQ |-> withQ, threw |-> FALSE]

Threw(r) == [rec |-> r, state |-> "throw", gen |-> FALSE, withQ |-> FALSE, threw |-> TRUE]

\* variant: 'regen' costs nothing
HandleRegen_NoPenalty(r) ==
    LET r2 == TryDroppingWrong(r)
    IN  IF IsLimited(r2)
        THEN Outcome(r2, "limit", FALSE, FALSE)
        ELSE Outcome(r2, "new", TRUE, TRUE)

\* _handleRegen(rec, id), rec present
HandleRegen(r) ==
    LET r1 == SetWrong(r, r.wrong + prefs.onRegenWrong)
        r2 == TryDroppingWrong(r1)
    IN  IF IsLimited(r2)
        THEN Outcome(r2, "limit", FALSE, FALSE)
        ELSE Outcome(r2, "new", TRUE, TRUE)

\* variant: the empty answer always takes a new challenge
HandleNew_Reissues(r) ==
    IF IsLimited(r)
    THEN LET r1 == TryDroppingWrong(r)
         IN  Outcome(r1, "new", ~IsLimited(r1), TRUE)
    ELSE Outcome(r, "new", TRUE, TRUE)

\* _handleNew(rec, id), rec present
HandleNew(r) ==
    IF IsLimited(r)
    THEN LET r1 == TryDroppingWrong(r)
         IN  Outcome(r1, "new", ~IsLimited(r1), TRUE)
    ELSE Outcome(r, "new", FALSE, TRUE)

\* variant: a wrong answer clears the credit whatever resetOnWrong says
WrongAnswer_Resets(r) ==
    LET r1 == SetWrong(r, r.wrong + Half)
        r2 == SetCorrect(r1, 0)
    IN  IF IsLimited(r2)
        THEN Outcome(r2, "limit", FALSE, FALSE)
        ELSE Outcome(r2, "wrong", TRUE, TRUE)

\* the wrong-answer branch of _handleAnswer
WrongAnswer(r) ==
    LET r1 == SetWrong(r, r.wrong + Half)
        r2 == IF prefs.resetOnWrong THEN SetCorrect(r1, 0) ELSE r1
    IN  IF IsLimited(r2)
        THEN Outcome(r2, "limit", FALSE, FALSE)
        ELSE Outcome(r2, "wrong", TRUE, TRUE)

\* variant: an accepted answer clears the wrong answers
CorrectAnswer_Forgives(r) ==
    LET r1 == SetCorrect([r EXCEPT !.wrong = 0], r.correct + Half)
    IN  IF r1.authd
        THEN Outcome(r1, "success", FALSE, FALSE)
        ELSE Outcome(r1, "more", TRUE, TRUE)

\* the accepted-answer branch of _handleAnswer
CorrectAnswer(r) ==
    LET r1 == SetCorrect(r, r.correct + Half)
    IN  IF r1.authd
        THEN Outcome(r1, "success", FALSE, FALSE)
        ELSE Outcome(r1, "more", TRUE, TRUE)

\* _handleAnswer(rec, id, ans), rec present
HandleAnswer(r, ans) ==
    IF ans = Regen THEN HandleRegen(r)
    ELSE IF IsLimited(r)
    THEN LET r1 == TryDroppingWrong(r)
         IN  IF IsLimited(r1)
             THEN Outcome(r1, "limit", FALSE, FALSE)
             ELSE Outcome(r1, "new", TRUE, TRUE)
    ELSE IF TookTooLong(r)
    THEN LET r1 == SetWrong(r, r.wrong + prefs.wrongOnTooLong)
         IN  IF IsLimited(r1)
             THEN Outcome(r1, "limit", FALSE, FALSE)
             ELSE Outcome(r1, "timeout", TRUE, TRUE)
    ELSE IF prefs.customChecker = "throws" THEN Threw(r)
    ELSE IF CheckAnswer(r, ans) /\ ~WasTooFast(r)
    THEN CorrectAnswer(r)
    ELSE WrongAnswer(r)

\* the dispatch at the end of tryAuth's try block, rec present
Cascade(r, ans) ==
    IF ans = Regen THEN HandleRegen(r)
    ELSE IF ans = Empty THEN HandleNew(r)
    ELSE HandleAnswer(r, ans)

\* _genReturnValue(record, state, withQ); a throwing custom challenger makes
\* it throw
GenReturnValue(op, ans, r, state, withQ) ==
    IF withQ /\ prefs.customChallenger = "throws"
    THEN [NoResult EXCEPT !.op = op, !.ans = ans, !.state = "throw"]
    ELSE [NoResult EXCEPT !.op = op, !.ans = ans, !.state = state,
                          !.challenge = IF withQ THEN GetChallenge(r) ELSE 0]

\* variant: no catch, the exception reaches the caller
Catch_Rethrows(result) == result

\* the try ... catch of tryAuth
Catch(result) ==
    IF result.state = "throw" THEN [result EXCEPT !.state = "error"] ELSE result

\* what reaches the caller: deAuthAndGenNew has no try ... catch
Boundary(result) == IF result.op = "tryAuth" THEN Catch(result) ELSE result

\* A call that does not reach await genCaptcha(), or whose popCaptcha()
\* rejects: result is on its way to the caller, behind hops promise jobs
Return(a, h, kind, id, ans, result, hops) ==
    /\ HasFreeSlot
    /\ LET s == FreeSlot
           cs == [calls EXCEPT ![s] =
                    [IdleCall EXCEPT !.kind = kind, !.id = id, !.ans = ans,
                                     !.pc = "done",
                                     !.seq = Queued(calls) + 1, !.hops = hops,
                                     !.result = Boundary(result)]]
       IN  /\ authr' = a
           /\ calls' = cs
           /\ heap' = Collect(h, a.map, cs)
    /\ UNCHANGED <<MgrVars, prefs, now, last>>

\* whether this popCaptcha() of the provider rejects
PopRejects == IF prefs.provider = "flaky" THEN BOOLEAN ELSE {FALSE}

\* variant: a rejected popCaptcha() undoes what the handler did to the records
GenCaptcha_Rollback(a, h, kind, id, ans, x, state, store, up) ==
    \E rejects \in PopRejects :
        IF rejects
        THEN Return(a, heap, kind, id, ans,
                    [NoResult EXCEPT !.op = kind, !.ans = ans, !.state = "throw"], 2 + up)
        ELSE /\ HasFreeSlot
             /\ LET s == FreeSlot
                    r == PopCaptcha(mgr, s)
                    cs == [calls EXCEPT ![s] =
                             [kind |-> kind, id |-> id, ans |-> ans,
                              pc |-> IF r.value # NoCh THEN "settled" ELSE "parked",
                              rec |-> x, state |-> state, store |-> store,
                              value |-> r.value,
                              seq |-> Queued(calls) + 1,
                              hops |-> IF r.value # NoCh THEN 2 ELSE 1,
                              up |-> up,
                              result |-> NoResult]]
                IN  /\ mgr' = r.mgr
                    /\ calls' = cs
                    /\ authr' = a
                    /\ heap' = Collect(h, a.map, cs)
                    /\ UNCHANGED <<creating, made, prefs, now, last>>

\* genCaptcha() up to its await: popCaptcha() is called.  The promise it
\* returns is that of an async function which returned a promise: one job
\* subscribes to the returned promise, and once that is fulfilled (at once, or
\* by resolveFunc) a second job fulfils the promise of popCaptcha(); the rest of
\* genCaptcha() is the job after.  A provider that rejects: the rejection
\* passes genCaptcha(), the handler and the return awaits above it, a job each.
GenCaptcha(a, h, kind, id, ans, x, state, store, up) ==
    \E rejects \in PopRejects :
        IF rejects
        THEN Return(a, h, kind, id, ans,
                    [NoResult EXCEPT !.op = kind, !.ans = ans, !.state = "throw"], 2 + up)
        ELSE /\ HasFreeSlot
             /\ LET s == FreeSlot
                    r == PopCaptcha(mgr, s)
                    cs == [calls EXCEPT ![s] =
                             [kind |-> kind, id |-> id, ans |-> ans,
                              pc |-> IF r.value # NoCh THEN "settled" ELSE "parked",
                              rec |-> x, state |-> state, store |-> store,
                              value |-> r.value,
                              seq |-> Queued(calls) + 1,
                              hops |-> IF r.value # NoCh THEN 2 ELSE 1,
                              up |-> up,
                              result |-> NoResult]]
                IN  /\ mgr' = r.mgr
                    /\ calls' = cs
                    /\ authr' = a
                    /\ heap' = Collect(h, a.map, cs)
                    /\ UNCHANGED <<creating, made, prefs, now, last>>

\* variant: the authenticated record is run through the cascade again
AlreadyAuthd_Never(x) == FALSE

\* tryAuth's test rec && rec.authd, for the record at address x (0: none)
AlreadyAuthd(x) == x # 0 /\ heap[x].authd

\* tryAuth(id, ans) up to its first await.  "success" for an authenticated
\* record is returned by tryAuth itself; every other result passes the return
\* await of tryAuth, and that of _handleRegen or _handleAnswer when these hand
\* a missing record to _handleNew.
TryAuth(id, ans) ==
    LET a1 == DelOld(authr)
        a2 == IF GetRecord(a1, id) # 0 /\ Expired(heap[GetRecord(a1, id)])
              THEN [a1 EXCEPT !.map[id] = 0] ELSE a1
        x == GetRecord(a2, id)
    IN  IF AlreadyAuthd(x)
        THEN Return(a2, heap, "tryAuth", id, ans,
                    GenReturnValue("tryAuth", ans, heap[x], "success", FALSE), 0)
        ELSE IF x # 0
        THEN LET out == Cascade(heap[x], ans)
                 h1 == [heap EXCEPT ![x] = out.rec]
             IN  IF out.gen
                 THEN GenCaptcha(a2, h1, "tryAuth", id, ans, x, out.state, FALSE, 1)
                 ELSE Return(a2, h1, "tryAuth", id, ans,
                             GenReturnValue("tryAuth", ans, out.rec, out.state, out.withQ), 1)
        ELSE LET h0 == Collect(heap, a2.map, calls)
             IN  GenCaptcha(a2, [h0 EXCEPT ![FreeAddr(h0)] = NewRecord],
                            "tryAuth", id, ans, FreeAddr(h0), "new", TRUE,
                            IF ans = Empty THEN 1 ELSE 2)

\* deAuth(id)
DeAuth(id) ==
    /\ authr' = [authr EXCEPT !.map[id] = 0]
    /\ heap' = Collect(heap, authr'.map, calls)
    /\ UNCHANGED <<MgrVars, prefs, calls, now, last>>

\* variant: the record the map holds is given a new challenge
DeAuthAndGenNew_Reuse(id) ==
    IF authr.map[id] # 0
    THEN GenCaptcha(authr, heap, "deAuthAndGenNew", id, Empty, authr.map[id], "new", TRUE, 0)
    ELSE GenCaptcha(authr, [heap EXCEPT ![FreeAddr(heap)] = NewRecord],
                    "deAuthAndGenNew", id, Empty, FreeAddr(heap), "new", TRUE, 0)

\* deAuthAndGenNew(id) up to its await
DeAuthAndGenNew(id) ==
    GenCaptcha(authr, [heap EXCEPT ![FreeAddr(heap)] = NewRecord],
               "deAuthAndGenNew", id, Empty, FreeAddr(heap), "new", TRUE, 0)

\* a promise job of the call in slot s that touches no record: it subscribes
\* to the promise popCaptcha() returned (after which a parked call has no job
\* queued), fulfils the promise of popCaptcha(), or passes a result or a
\* rejection through one return await
PromiseJob(s) ==
    /\ calls[s].seq = 1
    /\ calls[s].hops > 0
    /\ calls' = Requeue([calls EXCEPT ![s].hops = @ - 1], s, calls[s].pc # "parked")
    /\ UNCHANGED <<MgrVars, authr, prefs, heap, now, last>>

\* the continuation of await popCaptcha(): the rest of genCaptcha()
GenCaptchaReturns(s) ==
    /\ calls[s].kind \in {"tryAuth", "deAuthAndGenNew"}
    /\ calls[s].pc = "settled"
    /\ calls[s].seq = 1
    /\ calls[s].hops = 0
    /\ heap' = [heap EXCEPT ![calls[s].rec].captcha = calls[s].value,
                            ![calls[s].rec].lastDownloadTime = now]
    /\ calls' = Requeue([calls EXCEPT ![s].pc = "written"], s, TRUE)
    /\ UNCHANGED <<MgrVars, authr, prefs, now, last>>

\* variant: a new record is stored only when the id has none
HandlerReturns_KeepsFirst(s) ==
    /\ calls[s].pc = "written"
    /\ calls[s].seq = 1
    /\ LET c == calls[s]
           a1 == IF c.store /\ authr.map[c.id] = 0
                 THEN [authr EXCEPT !.map[c.id] = c.rec] ELSE authr
           res == Boundary(GenReturnValue(c.kind, c.ans, heap[c.rec], c.state, TRUE))
           cs == Requeue([calls EXCEPT ![s].pc = "done", ![s].hops = c.up,
                                       ![s].result = res], s, TRUE)
       IN  /\ authr' = a1
           /\ calls' = cs
           /\ heap' = Collect(heap, a1.map, cs)
    /\ UNCHANGED <<MgrVars, prefs, now, last>>

\* the continuation of await rec.genCaptcha(): the rest of the handler, which
\* stores a new record and makes the result from the record as it is now
HandlerReturns(s) ==
    /\ calls[s].pc = "written"
    /\ calls[s].seq = 1
    /\ LET c == calls[s]
           a1 == IF c.store THEN [authr EXCEPT !.map[c.id] = c.rec] ELSE authr
           res == Boundary(GenReturnValue(c.kind, c.ans, heap[c.rec], c.state, TRUE))
           cs == Requeue([calls EXCEPT ![s].pc = "done", ![s].hops = c.up,
                                       ![s].result = res], s, TRUE)
       IN  /\ authr' = a1
           /\ calls' = cs
           /\ heap' = Collect(heap, a1.map, cs)
    /\ UNCHANGED <<MgrVars, prefs, now, last>>

\* the continuation of the caller's await: the caller of tryAuth or
\* deAuthAndGenNew receives calls[s].result, and the call is over
CallReturns(s) ==
    /\ calls[s].pc = "done"
    /\ calls[s].seq = 1
    /\ calls[s].hops = 0
    /\ LET cs == Requeue([calls EXCEPT ![s] = IdleCall], s, FALSE)
       IN  /\ calls' = cs
           /\ heap' = Collect(heap, authr.map, cs)
    /\ UNCHANGED <<MgrVars, authr, prefs, now, last>>

\* one job of the microtask queue runs
Resumes ==
    \/ \E s \in Slots : PromiseJob(s)
    \/ \E s \in Slots : GenCaptchaReturns(s)
    \/ \E s \in Slots : HandlerReturns(s)
    \/ \E s \in Slots : CallReturns(s)

\* time passes
Advance ==
    /\ now < MaxTime
    /\ now' = now + 1
    /\ UNCHANGED <<MgrVars, authr, prefs, heap, calls, last>>

\* the caller serialises its calls per id: it awaits the result of one call
\* before it makes the next
NoCallFor(id) == \A s \in Slots : calls[s].id # id

MgrConfigs ==
    {NewMgr(c, d, f) : c \in {1, 2, 3}, d \in BOOLEAN, f \in BOOLEAN}

InitMgr ==
    /\ mgr \in MgrConfigs
    /\ creating = 0
    /\ made = 0
    /\ authr = [map |-> [i \in Ids |-> 0], lastOldCheck |-> 1]
    /\ prefs = AuthPreferences(1, TRUE, "mgr", "default", "default")
    /\ heap = [x \in Addrs |-> NoRec]
    /\ calls = [s \in Slots |-> IdleCall]
    /\ now = 1
    /\ last = NoResult

NextMgr ==
    \/ Begin
    \/ Tick
    \/ Created
    \/ CreateFailed
    \/ WorkerLost
    \/ Cutback
    \/ Terminate
    \/ Pop
    \/ \E s \in Slots : PopReturns(s)

SpecMgr == InitMgr /\ [][NextMgr]_vars

\* A begun manager that is never terminated: its tick timer keeps firing
\* (weak fairness of Tick), and a generator that is asked again and again
\* does not fail for ever (strong fairness of Created)
InitLive ==
    /\ mgr \in {[NewMgr(2, d, f) EXCEPT !.providerJob = f, !.ticking = "live",
                                        !.cutback = IF d THEN "live" ELSE @] :
                   d \in BOOLEAN, f \in BOOLEAN}
    /\ creating = 0
    /\ made = 0
    /\ authr = [map |-> [i \in Ids |-> 0], lastOldCheck |-> 1]
    /\ prefs = AuthPreferences(1, TRUE, "mgr", "default", "default")
    /\ heap = [x \in Addrs |-> NoRec]
    /\ calls = [s \in Slots |-> IdleCall]
    /\ now = 1
    /\ last = NoResult

NextLive ==
    \/ Tick
    \/ Created
    \/ CreateFailed
    \/ Cutback
    \/ Pop
    \/ \E s \in Slots : PopReturns(s)

SpecLive == InitLive /\ [][NextLive]_vars /\ WF_vars(Tick) /\ SF_vars(Created)

\* The manager of the README's usage, new CaptchaMgr(opts) followed by begin()
Begun(m) ==
    [m EXCEPT !.providerJob = m.forks, !.ticking = "live",
              !.cutback = IF m.capacityDynamic THEN "live" ELSE @]

\* the subject the authenticator is driven with
Subject == {"s1"}

Init ==
    /\ mgr = Begun(NewMgr(2, FALSE, FALSE))
    /\ creating = 0
    /\ made = 0
    /\ authr = [map |-> [i \in Ids |-> 0], lastOldCheck |-> 1]
    /\ prefs \in {AuthPreferences(n, r, "mgr", "default", "default") :
                    n \in {1, 2}, r \in BOOLEAN}
    /\ heap = [x \in Addrs |-> NoRec]
    /\ calls = [s \in Slots |-> IdleCall]
    /\ now = 1
    /\ last = NoResult

Next ==
    \/ Tick
    \/ Created
    \/ \E id \in Subject, ans \in Inputs : NoCallFor(id) /\ TryAuth(id, ans)
    \/ Resumes
    \/ Advance

Spec == Init /\ [][Next]_vars

\* The same system with an application that also calls deAuth and
\* deAuthAndGenNew
InitDeAuth ==
    /\ mgr = Begun(NewMgr(2, FALSE, FALSE))
    /\ creating = 0
    /\ made = 0
    /\ authr = [map |-> [i \in Ids |-> 0], lastOldCheck |-> 1]
    /\ prefs \in {AuthPreferences(1, TRUE, "mgr", "default", "default"),
                  AuthPreferences(2, FALSE, "mgr", "default", "default")}
    /\ heap = [x \in Addrs |-> NoRec]
    /\ calls = [s \in Slots |-> IdleCall]
    /\ now = 1
    /\ last = NoResult

NextDeAuth ==
    \/ Next
    \/ \E id \in Subject : DeAuth(id)
    \/ \E id \in Subject : NoCallFor(id) /\ DeAuthAndGenNew(id)

SpecDeAuth == InitDeAuth /\ [][NextDeAuth]_vars

\* The same system with a caller that does not serialise: tryAuth(id, .) is
\* called while an earlier tryAuth(id, .) is suspended in popCaptcha()
RaceInputs == {Empty, <<105, 100>>}

InitRace ==
    /\ mgr = Begun(NewMgr(2, FALSE, FALSE))
    /\ creating = 0
    /\ made = 0
    /\ authr = [map |-> [i \in Ids |-> 0], lastOldCheck |-> 1]
    /\ prefs \in {AuthPreferences(1, TRUE, "mgr", "default", "default"),
                  AuthPreferences(2, FALSE, "mgr", "default", "default")}
    /\ heap = [x \in Addrs |-> NoRec]
    /\ calls = [s \in Slots |-> IdleCall]
    /\ now = 1
    /\ last = NoResult

NextRace ==
    \/ Tick
    \/ Created
    \/ \E id \in Subject, ans \in RaceInputs : TryAuth(id, ans)
    \/ Resumes
    \/ Advance

SpecRace == InitRace /\ [][NextRace]_vars

\* The same system with collaborators that fail: a provider whose popCaptcha()
\* may reject, a custom checker that throws, a custom challenger that throws
FaultyPreferences ==
    {AuthPreferences(1, TRUE, "flaky", "default", "default"),
     AuthPreferences(2, TRUE, "flaky", "default", "default"),
     AuthPreferences(1, TRUE, "mgr", "throws", "default"),
     AuthPreferences(1, TRUE, "mgr", "default", "throws")}

InitFaulty ==
    /\ mgr = Begun(NewMgr(2, FALSE, FALSE))
    /\ creating = 0
    /\ made = 0
    /\ authr = [map |-> [i \in Ids |-> 0], lastOldCheck |-> 1]
    /\ prefs \in FaultyPreferences
    /\ heap = [x \in Addrs |-> NoRec]
    /\ calls = [s \in Slots |-> IdleCall]
    /\ now = 1
    /\ last = NoResult

SpecFaulty == InitFaulty /\ [][Next]_vars

\* The same system driven by two subjects, each of which sends "id" with every
\* call: the first call of a subject issues its challenge, the later ones answer
SweepInputs == {<<105, 100>>}

InitSweep ==
    /\ mgr = Begun(NewMgr(2, FALSE, FALSE))
    /\ creating = 0
    /\ made = 0
    /\ authr = [map |-> [i \in Ids |-> 0], lastOldCheck |-> 1]
    /\ prefs = AuthPreferences(1, TRUE, "mgr", "default", "default")
    /\ heap = [x \in Addrs |-> NoRec]
    /\ calls = [s \in Slots |-> IdleCall]
    /\ now = 1
    /\ last = NoResult

NextSweep ==
    \/ Tick
    \/ Created
    \/ \E id \in Ids, ans \in SweepInputs : NoCallFor(id) /\ TryAuth(id, ans)
    \/ Resumes
    \/ Advance

SpecSweep == InitSweep /\ [][NextSweep]_vars

\* Two subjects behind a buffer of one challenge; the application logs the
\* first one out, or logs it out and challenges it again, while its record is
\* authenticated
InitCross ==
    /\ mgr = Begun(NewMgr(1, FALSE, FALSE))
    /\ creating = 0
    /\ made = 0
    /\ authr = [map |-> [i \in Ids |-> 0], lastOldCheck |-> 1]
    /\ prefs = AuthPreferences(1, TRUE, "mgr", "default", "default")
    /\ heap = [x \in Addrs |-> NoRec]
    /\ calls = [s \in Slots |-> IdleCall]
    /\ now = 1
    /\ last = NoResult

NextCross ==
    \/ NextSweep
    \/ \E id \in Subject : AlreadyAuthd(authr.map[id]) /\ DeAuth(id)
    \/ \E id \in Subject :
          NoCallFor(id) /\ AlreadyAuthd(authr.map[id]) /\ DeAuthAndGenNew(id)

SpecCross == InitCross /\ [][NextCross]_vars

\* The comparator on its own: a record holds a challenge whose answer is any
\* string of up to MaxLen code units among A, a, K, the Kelvin sign (whose
\* lower case is k), i, I with dot above (whose lower case is i followed by
\* the combining dot above), the combining dot above, the capital sigma, the
\* final small sigma and the small sigma, or any string of up to MaxPairs
\* surrogate pairs; checkAnswer is called once, with any such string
Chars == {65, 97, 75, 8490, 105, 304, 775, 931, 962, 963}

\* the first halves of the Deseret and of the Adlam letters
High == {55297, 55354}

\* the second halves of the Deseret capital long I, of its small letter, of
\* the Adlam capital alif and of its small letter
Low == {56320, 56360, 56576, 56610}

Pairs == {<<h, l>> : h \in High, l \in Low}

RECURSIVE PairWords(_)
PairWords(n) ==
    IF n = 0 THEN {<<>>}
    ELSE LET W == PairWords(n - 1) IN W \cup {w \o p : w \in W, p \in Pairs}

Words == UNION {[1..n -> Chars] : n \in 0..MaxLen} \cup PairWords(MaxPairs)

InitChecker ==
    /\ now = 1
    /\ mgr = Begun(NewMgr(2, FALSE, FALSE))
    /\ creating = 0
    /\ made = 1
    /\ authr = [map |-> [i \in Ids |-> IF i = "s1" THEN 1 ELSE 0], lastOldCheck |-> 1]
    /\ prefs = AuthPreferences(1, TRUE, "mgr", "default", "default")
    /\ \E w \in Words :
          heap = [x \in Addrs |->
                    IF x = 1 THEN [NewRecord EXCEPT !.captcha = [id |-> 1, answer |-> w]]
                    ELSE NoRec]
    /\ calls = [s \in Slots |-> IdleCall]
    /\ last = NoResult

\* rec.checkAnswer(ans) on the record of s1; last notes the call and its result
CheckAnswerCall(ans) ==
    /\ last = NoResult
    /\ last' = [op |-> "checkAnswer", ans |-> ans,
                state |-> IF CheckAnswer(heap[1], ans) THEN "true" ELSE "false",
                challenge |-> heap[1].captcha.id]
    /\ UNCHANGED <<mgr, creating, made, authr, prefs, heap, calls, now>>

NextChecker == \E ans \in Words : CheckAnswerCall(ans)

SpecChecker == InitChecker /\ [][NextChecker]_vars

(***************************************************************************)
(* Properties of the manager, checked under SpecMgr                        *)
(***************************************************************************)
\* slot s is taken by a popCaptcha() call in this step
PopCalled(s) == calls[s].kind = "idle" /\ calls'[s].kind = "pop"

\* a production completes in this step
Completes == made' = made + 1

FifoStep ==
    \* a parked consumer is settled only as the oldest one, by a completion,
    \* with the challenge that just completed, which is not buffered as well
    /\ \A s \in Slots :
         calls[s].pc = "parked" /\ calls'[s].pc # "parked" =>
            /\ Completes
            /\ mgr.awaitingQue # << >>
            /\ s = Head(mgr.awaitingQue)
            /\ mgr'.awaitingQue = Tail(mgr.awaitingQue)
            /\ calls'[s].pc = "settled"
            /\ calls'[s].value.id = made'
            /\ mgr'.readyQue = mgr.readyQue
    \* a completion that finds a consumer parked settles the oldest one
    /\ Completes /\ mgr.awaitingQue # << >> =>
            /\ calls[Head(mgr.awaitingQue)].pc = "parked"
            /\ calls'[Head(mgr.awaitingQue)].pc = "settled"
            /\ calls'[Head(mgr.awaitingQue)].value.id = made'
    \* the parked FIFO changes at its two ends only, and holds the parked calls
    /\ \/ mgr'.awaitingQue = mgr.awaitingQue
       \/ mgr.awaitingQue # << >> /\ mgr'.awaitingQue = Tail(mgr.awaitingQue)
       \/ \E s \in Slots : PopCalled(s) /\ mgr'.awaitingQue = Append(mgr.awaitingQue, s)
    /\ \A s \in Slots :
         calls'[s].pc = "parked" <=>
            \E i \in 1..Len(mgr'.awaitingQue) : mgr'.awaitingQue[i] = s
    \* the ready buffer is filled at the tail and emptied at the head
    /\ \/ mgr'.readyQue = mgr.readyQue
       \/ Completes /\ mgr'.readyQue = Append(mgr.readyQue, [id |-> made',
                                                answer |-> mgr'.readyQue[Len(mgr'.readyQue)].answer])
       \/ /\ mgr.readyQue # << >>
          /\ mgr'.readyQue = Tail(mgr.readyQue)
          /\ \E s \in Slots : PopCalled(s) /\ calls'[s].value = Head(mgr.readyQue)

\* C1: parked consumers are settled strictly in the order they parked, each
\* completion that finds a consumer parked settles the oldest one with the
\* challenge that just completed, and ready challenges are handed out
\* oldest-first.
C1_FifoFairness == [][FifoStep]_vars

\* Scenario C: three requests pending, two consumers parked; the first
\* completion went to the consumer that parked first, the other still waits
C1_Witness ==
    /\ mgr.capacity = 3
    /\ mgr.pendingCaptchas = 2
    /\ mgr.awaitingQue = <<2>>
    /\ calls[1].pc = "settled" /\ calls[1].value.id = 1
    /\ calls[2].pc = "parked"

PopStep(s) ==
    IF mgr.readyQue # << >> /\ mgr.awaitingQue = << >>
    THEN /\ calls'[s].pc = "settled"
         /\ calls'[s].value = Head(mgr.readyQue)
         /\ mgr'.readyQue = Tail(mgr.readyQue)
         /\ mgr'.awaitingQue = mgr.awaitingQue
    ELSE /\ calls'[s].pc = "parked"
         /\ calls'[s].value = NoCh
         /\ mgr'.readyQue = mgr.readyQue
         /\ mgr'.awaitingQue = Append(mgr.awaitingQue, s)

\* C2: popCaptcha() returns the head of the ready buffer at once exactly when
\* the buffer is non-empty and nobody is parked; otherwise it takes nothing
\* from the buffer, appends the caller to the parked FIFO and stays pending.
C2_PopDecision == [][\A s \in Slots : PopCalled(s) => PopStep(s)]_vars

\* a pop served at once from a buffer of two, leaving the younger challenge
C2_Witness ==
    /\ calls[1].kind = "pop" /\ calls[1].pc = "settled" /\ calls[1].value.id = 1
    /\ Len(mgr.readyQue) = 1 /\ mgr.readyQue[1].id = 2
    /\ mgr.awaitingQue = << >>
    /\ mgr.pendingCaptchas = 0 /\ mgr.capacity = 2

(***************************************************************************)
(* Properties of the authenticator, checked under Spec                     *)
(***************************************************************************)
Mapped(id) == authr.map[id] # 0

\* the record the map holds for id
Rec(id) == heap[authr.map[id]]

Occurs(str, c) == Cardinality({i \in 1..Len(str) : str[i] = c})

\* the two strings, lower-cased, hold the same characters, each as often
SameLetters(a, b) ==
    LET la == ToLowerCase(a)
        lb == ToLowerCase(b)
    IN  \A c \in {la[i] : i \in 1..Len(la)} \cup {lb[i] : i \in 1..Len(lb)} :
            Occurs(la, c) = Occurs(lb, c)

\* the subject submits an answer (not the empty one, not 'regen')
IsAnswer(ans) == ans # Empty /\ ans # Regen

\* the step is a serialised tryAuth(id, ans); the first conjuncts follow from
\* TryAuth and spare its evaluation on the steps of the manager and the clock
Tried(id, ans) ==
    /\ now' = now /\ made' = made /\ creating' = creating
    /\ NoCallFor(id)
    /\ TryAuth(id, ans)

\* the step suspends tryAuth(id, ans) in popCaptcha(), to report state
Suspends(id, ans, state) ==
    \E s \in Slots :
        /\ calls[s].kind = "idle"
        /\ calls'[s].kind = "tryAuth" /\ calls'[s].id = id /\ calls'[s].ans = ans
        /\ calls'[s].pc \in {"parked", "settled"}
        /\ calls'[s].state = state /\ calls'[s].rec = authr.map[id]
        /\ ~calls'[s].store

\* the step is a tryAuth that returns res without awaiting genCaptcha(): res
\* is on its way to the caller, and no challenge is taken from the manager
Ends(res) ==
    /\ mgr' = mgr
    /\ \E s \in Slots :
          /\ calls[s].kind = "idle"
          /\ calls'[s].kind = "tryAuth" /\ calls'[s].pc = "done"
          /\ calls'[s].ans = res.ans
          /\ calls'[s].result = res
          /\ \A t \in Slots \ {s} : calls'[t] = calls[t]

\* the step returns state to the caller of tryAuth, without a challenge
Returns(ans, state) ==
    Ends([op |-> "tryAuth", ans |-> ans, state |-> state, challenge |-> 0])

\* the calls whose result is on its way to the caller
Done == {s \in Slots : calls[s].pc = "done"}

\* a tryAuth has returned state without a challenge
Returned(ans, state) ==
    \E s \in Done :
        calls[s].result = [op |-> "tryAuth", ans |-> ans, state |-> state, challenge |-> 0]

\* the job of slot s is at the head of the microtask queue and runs in this
\* step: the rest of genCaptcha() (Writes), the rest of the handler
\* (Finishes), the return to the caller (Delivers)
Resumed(s) == calls[s].seq = 1 /\ calls[s].hops = 0 /\ calls'[s].pc # calls[s].pc

Writes(s) ==
    /\ calls[s].seq = 1 /\ calls[s].hops = 0
    /\ calls[s].pc = "settled" /\ calls'[s].pc = "written"

Finishes(s) == calls[s].seq = 1 /\ calls[s].pc = "written" /\ calls'[s].pc = "done"

Delivers(s) ==
    /\ calls[s].seq = 1 /\ calls[s].hops = 0
    /\ calls[s].pc = "done" /\ calls'[s].pc = "idle"

\* the step resumes the tryAuth suspended in slot s, which works on the record
\* of its id and is to report state.  The rest of genCaptcha() gives the record
\* a challenge it did not hold before, issued now, and leaves the counters as
\* the call left them when it was suspended; the rest of the handler makes
\* the result with that challenge; the caller receives it.
Reissued(s, state) ==
    /\ calls[s].kind = "tryAuth" /\ calls[s].state = state
    /\ authr' = authr
    /\ calls[s].pc = "settled" =>
          /\ Writes(s)
          /\ calls[s].value.id # 0
          /\ calls[s].value.id # heap[calls[s].rec].captcha.id
          /\ heap'[calls[s].rec] = [heap[calls[s].rec] EXCEPT !.captcha = calls[s].value,
                                                               !.lastDownloadTime = now]
    /\ calls[s].pc = "written" =>
          /\ Finishes(s)
          /\ heap[calls[s].rec].captcha = calls[s].value
          /\ calls'[s].result = [op |-> "tryAuth", ans |-> calls[s].ans, state |-> state,
                                 challenge |-> calls[s].value.id]
          /\ heap'[calls[s].rec] = heap[calls[s].rec]
    /\ calls[s].pc = "done" =>
          /\ Delivers(s)
          /\ calls[s].result = [op |-> "tryAuth", ans |-> calls[s].ans, state |-> state,
                                challenge |-> calls[s].value.id]
          /\ calls[s].result.challenge = heap[calls[s].rec].captcha.id
          /\ heap' = heap

C3_Step ==
    \A id \in Subject, ans \in Inputs :
        Mapped(id) /\ Rec(id).authd /\ ~Expired(Rec(id)) /\ Tried(id, ans) =>
            /\ Returns(ans, "success")
            /\ Mapped(id)'
            /\ Rec(id)' = Rec(id)

C3_Persists ==
    \A id \in Subject :
        Mapped(id) /\ Rec(id).authd =>
            \/ Mapped(id)' /\ Rec(id)' = Rec(id)
            \/ Expired(Rec(id))
            \/ DeAuth(id)
            \/ \E s \in Slots : /\ calls[s].kind = "deAuthAndGenNew"
                                /\ calls[s].id = id
                                /\ Finishes(s)

\* C3: once a record is authenticated, every later tryAuth on it, whatever the
\* answer, returns "success" and leaves the record as it is, and the record
\* stays authenticated until it expires or is removed.
C3_AuthMonotonic == [][C3_Step /\ C3_Persists]_vars

\* an authenticated record that collected a penalty before, asked again with
\* an empty answer at a later time: "success"
C3_Witness ==
    /\ Mapped("s1") /\ Rec("s1").authd /\ Rec("s1").wrong > 0
    /\ now > Rec("s1").lastAuthTime
    /\ Returned(Empty, "success")

\* C4: an authenticated record has correctCount >= requiredAnswers.
C4_AuthdImpliesThreshold ==
    \A x \in Addrs :
        heap[x].live /\ heap[x].authd => heap[x].correct >= prefs.requiredAnswers * Half

\* two answers required and given, then a wrong answer: still authenticated
C4_Witness ==
    /\ prefs.requiredAnswers = 2
    /\ Mapped("s1") /\ Rec("s1").authd /\ Rec("s1").correct = 2 * Half
    /\ \E s \in Done :
          /\ calls[s].result.state = "success"
          /\ IsAnswer(calls[s].ans) /\ ~SameLetters(calls[s].ans, Rec("s1").captcha.answer)

\* the record of id is limited and its cooldown has not elapsed
Cooling(id) ==
    /\ Mapped(id) /\ ~Rec(id).authd
    /\ Rec(id).wrong > prefs.maxWrong * Half
    /\ now - Rec(id).lastLimitTime <= prefs.dropWrongAfter

\* C5: while a record is limited and its cooldown has not elapsed, every
\* tryAuth reports "limit" with no challenge, whatever the answer.
C5_LimitWhateverAnswer ==
    [][\A id \in Subject, ans \in Inputs :
          Cooling(id) /\ Tried(id, ans) => Returns(ans, "limit")]_vars

\* C5, for the calls that carry an answer or 'regen'
C5_LimitOnAnswerOrRegen ==
    [][\A id \in Subject, ans \in Inputs \ {Empty} :
          Cooling(id) /\ Tried(id, ans) => Returns(ans, "limit") /\ Rec(id)' = Rec(id)]_vars

\* the record of id holds a challenge, is neither authenticated nor limited,
\* and ans comes neither too fast nor too late
Timely(id) ==
    /\ Mapped(id) /\ ~Rec(id).authd
    /\ Rec(id).wrong <= prefs.maxWrong * Half
    /\ now - Rec(id).lastDownloadTime <= prefs.answerTimeout

\* C6: with requiredAnswers = 1, a matching answer that comes neither too fast
\* nor too late authenticates: "success" without a challenge, authenticated,
\* lastAuthTime = now, and authSucceeded holds of the result (and of no result
\* with another state).
C6_CorrectAnswerSucceeds ==
    [][/\ \A id \in Subject, ans \in Inputs :
            /\ prefs.requiredAnswers = 1
            /\ Timely(id) /\ now - Rec(id).lastDownloadTime >= prefs.tooFast
            /\ IsAnswer(ans) /\ SameLetters(ans, Rec(id).captcha.answer)
            /\ Tried(id, ans)
            => /\ Returns(ans, "success")
               /\ Rec(id)'.authd
               /\ Rec(id)'.lastAuthTime = now
               /\ Rec(id)'.correct = Rec(id).correct + Half
       /\ \A s \in Slots :
            Delivers(s) =>
               /\ AuthSucceeded(calls[s].result) <=> calls[s].result.state = "success"
               /\ calls[s].result.state = "success" => calls[s].result.challenge = 0]_vars

\* Scenario A: the first answer, given exactly tooFast after the challenge was
\* issued, in another spelling of the same letters
C6_Witness ==
    /\ prefs.requiredAnswers = 1
    /\ Mapped("s1") /\ Rec("s1").authd /\ Rec("s1").wrong = 0
    /\ Rec("s1").lastAuthTime = now
    /\ now - Rec("s1").lastDownloadTime = prefs.tooFast
    /\ \E s \in Done :
          /\ calls[s].hops = 0 /\ AuthSucceeded(calls[s].result)
          /\ calls[s].ans # Rec("s1").captcha.answer
          /\ SameLetters(calls[s].ans, Rec("s1").captcha.answer)

\* ans is a wrong answer to the challenge of id: other letters, or too fast
WrongFor(id, ans) ==
    \/ ~SameLetters(ans, Rec(id).captcha.answer)
    \/ now - Rec(id).lastDownloadTime < prefs.tooFast

\* C7: each timely wrong answer adds exactly 1 to wrongCount; while the count
\* stays within maxWrong the call reports "wrong" with a freshly issued
\* challenge, and the answer that takes it past maxWrong (from 0: the
\* (maxWrong+1)-th) reports "limit" without a challenge and sets lastLimitTime.
C7_WrongAnswers ==
    [][/\ \A id \in Subject, ans \in Inputs :
            Timely(id) /\ IsAnswer(ans) /\ WrongFor(id, ans) /\ Tried(id, ans) =>
               /\ Mapped(id)'
               /\ Rec(id)'.wrong = Rec(id).wrong + Half
               /\ IF Rec(id).wrong + Half <= prefs.maxWrong * Half
                  THEN /\ Suspends(id, ans, "wrong")
                       /\ Rec(id)'.lastLimitTime = Rec(id).lastLimitTime
                  ELSE /\ Returns(ans, "limit")
                       /\ Rec(id)'.lastLimitTime = now
       /\ \A s \in Slots :
            calls[s].state = "wrong" /\ Resumed(s) => Reissued(s, "wrong")]_vars

\* Scenario B, first half: from a count of 0, the third wrong answer in a row
\* (maxWrong is 2) is answered "limit"; the two before took a fresh challenge
\* each
C7_Witness ==
    /\ prefs.maxWrong = 2
    /\ Mapped("s1") /\ Rec("s1").wrong = 3 * Half
    /\ Rec("s1").lastLimitTime = now
    /\ Rec("s1").captcha.id = 3
    /\ \E s \in Done :
          /\ calls[s].result.state = "limit" /\ calls[s].result.challenge = 0
          /\ IsAnswer(calls[s].ans)

\* the record of id is limited and its cooldown has elapsed
Cooled(id) ==
    /\ Mapped(id) /\ ~Rec(id).authd
    /\ Rec(id).wrong > prefs.maxWrong * Half
    /\ now - Rec(id).lastLimitTime > prefs.dropWrongAfter

\* C8: the first tryAuth on a limited record after the cooldown resets
\* wrongCount to 0 and reports "new" with a freshly issued challenge; the
\* answer it carries is not evaluated.
C8_CooldownDrop ==
    [][/\ \A id \in Subject, ans \in Inputs :
            Cooled(id) /\ Tried(id, ans) =>
               /\ Mapped(id)'
               /\ Rec(id)'.wrong = 0
               /\ Rec(id)'.correct = Rec(id).correct
               /\ Rec(id)'.authd = Rec(id).authd
               /\ Rec(id)'.lastLimitTime = Rec(id).lastLimitTime
               /\ Suspends(id, ans, "new")
       /\ \A s \in Slots :
            /\ calls[s].kind = "tryAuth" /\ calls[s].state = "new" /\ ~calls[s].store
            /\ Resumed(s)
            => Reissued(s, "new")]_vars

\* Scenario B, second half: after the limit and the cooldown, a call that
\* carried the right answer got "new" with the fourth challenge, and no credit
C8_Witness ==
    /\ Mapped("s1") /\ Rec("s1").wrong = 0 /\ Rec("s1").correct = 0
    /\ Rec("s1").lastLimitTime # 0
    /\ now - Rec("s1").lastLimitTime > prefs.dropWrongAfter
    /\ Rec("s1").captcha.id = 4
    /\ ~Rec("s1").authd
    /\ \E s \in Done :
          /\ calls[s].result.state = "new" /\ calls[s].result.challenge = 4
          /\ IsAnswer(calls[s].ans)

\* C9: an answer that comes sooner than tooFast counts as wrong even if it
\* matches: wrongCount + 1, correctCount not raised (zeroed under
\* resetOnWrong), and the call reports "wrong" or "limit".
C9_TooFastIsWrong ==
    [][\A id \in Subject, ans \in Inputs :
          /\ Mapped(id) /\ ~Rec(id).authd
          /\ Rec(id).wrong <= prefs.maxWrong * Half
          /\ now - Rec(id).lastDownloadTime < prefs.tooFast
          /\ IsAnswer(ans)
          /\ Tried(id, ans)
          => /\ Mapped(id)'
             /\ Rec(id)'.wrong = Rec(id).wrong + Half
             /\ Rec(id)'.correct = IF prefs.resetOnWrong THEN 0 ELSE Rec(id).correct
             /\ ~Rec(id)'.authd
             /\ \/ Suspends(id, ans, "wrong")
                \/ Returns(ans, "limit")]_vars

\* Scenario D: the right answer, sent at once, is waiting for the reissue that
\* goes with "wrong"; a credit earned before is kept (resetOnWrong off)
C9_Witness ==
    \E s \in Slots :
        /\ calls[s].kind = "tryAuth" /\ calls[s].state = "wrong"
        /\ SameLetters(calls[s].ans, heap[calls[s].rec].captcha.answer)
        /\ now - heap[calls[s].rec].lastDownloadTime < prefs.tooFast
        /\ heap[calls[s].rec].wrong = Half
        /\ heap[calls[s].rec].correct = Half
        /\ ~prefs.resetOnWrong

(***************************************************************************)
(* Properties of the authenticator with failing collaborators, checked     *)
(* under SpecFaulty                                                        *)
(***************************************************************************)
States == {"new", "more", "wrong", "timeout", "limit", "success", "error"}

\* the step is a tryAuth(id, ans) that ends in "error" without a challenge
\* having been written
Failed(id, ans) == Tried(id, ans) /\ Returns(ans, "error")

C10_Step ==
    /\ \A id \in Subject, ans \in Inputs :
         Tried(id, ans) =>
            \* a tryAuth either awaits genCaptcha() or has its result
            /\ \E s \in Slots :
                  /\ calls[s].kind = "idle"
                  /\ calls'[s].kind = "tryAuth" /\ calls'[s].ans = ans
                  /\ \/ calls'[s].pc \in {"parked", "settled"} /\ calls'[s].result = NoResult
                     \/ /\ calls'[s].pc = "done"
                        /\ calls'[s].result.op = "tryAuth" /\ calls'[s].result.ans = ans
                        /\ calls'[s].result.state \in States
            \* a checker that throws: the answer it was asked about ends in
            \* "error"
            /\ prefs.customChecker = "throws" /\ Timely(id) /\ IsAnswer(ans) =>
                  Returns(ans, "error") /\ Rec(id)' = Rec(id)
            \* a provider that rejects: a first issuance that fails stores no
            \* record, and the call ends in "error"
            /\ ~Mapped(id) /\ (\E s \in Slots : calls[s].kind = "idle" /\ calls'[s].pc = "done") =>
                  Returns(ans, "error") /\ ~Mapped(id)'
    \* the rest of a handler makes a result with one of the seven states, and
    \* with a challenger that throws "error" without a challenge
    /\ \A s \in Slots :
         calls[s].kind = "tryAuth" /\ Finishes(s) =>
            /\ calls'[s].result.op = "tryAuth" /\ calls'[s].result.ans = calls[s].ans
            /\ calls'[s].result.state \in States
            /\ prefs.customChallenger = "throws" =>
                  calls'[s].result = [op |-> "tryAuth", ans |-> calls[s].ans,
                                      state |-> "error", challenge |-> 0]
    \* the result is not touched on its way, and the caller receives it
    /\ \A s \in Slots :
         calls[s].kind = "tryAuth" /\ calls[s].pc = "done" =>
            /\ calls[s].result.state \in States
            /\ prefs.customChallenger = "throws" => calls[s].result.challenge = 0
            /\ calls'[s].kind # "idle" => calls'[s].result = calls[s].result
            /\ calls'[s].kind = "idle" => Delivers(s)

\* C10: tryAuth never throws to its caller: a failing popCaptcha(), checker or
\* challenger ends in a result with state "error", and every result of tryAuth
\* has a state among new, more, wrong, timeout, limit, success, error.
C10_NeverThrows == [][C10_Step]_vars

\* the reissue after a wrong answer failed: "error", the penalty is recorded
\* and the record still holds its first challenge
C10_Witness ==
    /\ prefs.provider = "flaky" /\ prefs.customChecker = "default"
    /\ Mapped("s1") /\ Rec("s1").wrong = Half /\ Rec("s1").captcha.id = 1
    /\ \E s \in Done :
          /\ calls[s].hops = 0
          /\ calls[s].result.op = "tryAuth" /\ calls[s].result.state = "error"
          /\ IsAnswer(calls[s].ans)

\* the counters of id's record after the step, against those before
Counted(id, wrong, correct) ==
    /\ Rec(id)'.wrong = Rec(id).wrong + wrong
    /\ Rec(id)'.correct = correct

\* C11: a tryAuth whose reissue fails after the handler changed a counter
\* ends in "error" with the counters as changed (wrongCount + 1, +
\* wrongOnTooLong, + onRegenWrong, correctCount + 1 or reset to 0) and with
\* the record's previous challenge and issue time.
C11_NoRollback ==
    [][\A id \in Subject, ans \in Inputs :
          /\ prefs.provider = "flaky"
          /\ Mapped(id) /\ ~Rec(id).authd /\ Rec(id).wrong <= prefs.maxWrong * Half
          /\ Failed(id, ans)
          => /\ Mapped(id)' /\ authr'.map = authr.map
             /\ Rec(id)'.captcha = Rec(id).captcha
             /\ Rec(id)'.lastDownloadTime = Rec(id).lastDownloadTime
             /\ Rec(id)'.lastLimitTime = Rec(id).lastLimitTime
             /\ ~Rec(id)'.authd
             /\ ans # Empty
             /\ ans = Regen => Counted(id, prefs.onRegenWrong, Rec(id).correct)
             /\ IsAnswer(ans) =>
                   IF now - Rec(id).lastDownloadTime > prefs.answerTimeout
                   THEN Counted(id, prefs.wrongOnTooLong, Rec(id).correct)
                   ELSE IF WrongFor(id, ans)
                   THEN Counted(id, Half, IF prefs.resetOnWrong THEN 0 ELSE Rec(id).correct)
                   ELSE Counted(id, 0, Rec(id).correct + Half)]_vars

\* two answers required: the first right answer was credited, the reissue that
\* goes with "more" failed, and the record still holds its first challenge
C11_Witness ==
    /\ prefs.provider = "flaky" /\ prefs.requiredAnswers = 2
    /\ Mapped("s1") /\ Rec("s1").correct = Half /\ Rec("s1").wrong = 0
    /\ Rec("s1").captcha.id = 1
    /\ \E s \in Done :
          /\ calls[s].result.op = "tryAuth" /\ calls[s].result.state = "error"
          /\ IsAnswer(calls[s].ans)
          /\ SameLetters(calls[s].ans, Rec("s1").captcha.answer)

(***************************************************************************)
(* Properties of deAuthAndGenNew, checked under SpecDeAuth                 *)
(***************************************************************************)
\* the challenge ch is held by no record
Unissued(ch) == \A x \in Addrs : heap[x].live => heap[x].captcha.id # ch.id

\* C12: when deAuthAndGenNew(id) completes, the map holds for id a new record
\* (not authenticated, both counters 0) with a challenge no record held
\* before, whatever record id had, and the result is "new" with that challenge.
C12_DeAuthAndGenNew ==
    [][\A s \in Slots, id \in Subject :
          calls[s].kind = "deAuthAndGenNew" /\ calls[s].id = id =>
             \* the challenge is written into the new record, which the map
             \* does not hold yet
             /\ Writes(s) =>
                   /\ calls[s].value # NoCh
                   /\ Unissued(calls[s].value)
                   /\ authr.map[id] # calls[s].rec
                   /\ heap'[calls[s].rec].captcha = calls[s].value
                   /\ heap'[calls[s].rec].lastDownloadTime = now
                   /\ authr' = authr
             \* the new record replaces whatever record id had
             /\ Finishes(s) =>
                   /\ Mapped(id)'
                   /\ authr'.map[id] = calls[s].rec
                   /\ authr'.map[id] # authr.map[id]
                   /\ ~Rec(id)'.authd
                   /\ Rec(id)'.correct = 0
                   /\ Rec(id)'.wrong = 0
                   /\ Rec(id)'.lastAuthTime = 0
                   /\ Rec(id)'.lastLimitTime = 0
                   /\ Rec(id)'.captcha = calls[s].value
                   /\ Rec(id)'.lastDownloadTime <= now
                   /\ calls'[s].result =
                         [op |-> "deAuthAndGenNew", ans |-> Empty, state |-> "new",
                          challenge |-> calls[s].value.id]
             \* the caller receives "new" with that challenge
             /\ Delivers(s) =>
                   /\ authr' = authr
                   /\ calls[s].result =
                         [op |-> "deAuthAndGenNew", ans |-> Empty, state |-> "new",
                          challenge |-> calls[s].value.id]]_vars

\* deAuthAndGenNew is waiting for its challenge while the map still holds the
\* authenticated record it is about to replace
C12_Pending ==
    \E s \in Slots :
        /\ calls[s].kind = "deAuthAndGenNew" /\ calls[s].id = "s1"
        /\ Mapped("s1") /\ Rec("s1").authd

\* deAuthAndGenNew returned "new" with the third challenge, which the new
\* record holds; the map has no other record
C12_Witness ==
    /\ \E s \in Done :
          /\ calls[s].hops = 0
          /\ calls[s].result =
                [op |-> "deAuthAndGenNew", ans |-> Empty, state |-> "new", challenge |-> 3]
    /\ Mapped("s1") /\ Rec("s1").captcha.id = 3
    /\ ~Rec("s1").authd /\ Rec("s1").wrong = 0 /\ Rec("s1").correct = 0
    /\ Rec("s1").lastDownloadTime = now
    /\ \A x \in Addrs : heap[x].live => x = authr.map["s1"]
    /\ \A s \in Slots : calls[s].kind \in {"idle", "deAuthAndGenNew"}

(***************************************************************************)
(* Properties of the sweep, checked under SpecSweep                        *)
(***************************************************************************)
\* the step keeps the record of j in the map, as it is
Retained(j) == authr'.map[j] = authr.map[j] /\ heap'[authr.map[j]] = heap[authr.map[j]]

\* the step takes the record of j out of the map
Deleted(j) == authr'.map[j] = 0

\* C13: a tryAuth made more than authTimeout after the last sweep notes the
\* time of this sweep and deletes every expired record, of any id, retaining
\* the others; a tryAuth made sooner notes nothing and deletes no record,
\* except the expired record of its own id.
C13_Sweep ==
    [][\A id \in Ids, ans \in SweepInputs :
          Tried(id, ans) =>
             IF now - authr.lastOldCheck > prefs.authTimeout
             THEN /\ authr'.lastOldCheck = now
                  /\ \A j \in Ids :
                        Mapped(j) =>
                           IF Expired(Rec(j)) THEN Deleted(j)
                           ELSE IF j # id THEN Retained(j)
                           ELSE authr'.map[j] = authr.map[j]
             ELSE /\ authr'.lastOldCheck = authr.lastOldCheck
                  /\ \A j \in Ids \ {id} : Mapped(j) => Retained(j)
                  /\ Mapped(id) =>
                        IF Expired(Rec(id)) THEN Deleted(id)
                        ELSE authr'.map[id] = authr.map[id]]_vars

\* the sweep of a call of s1 deleted the expired record of s2, which held the
\* first challenge, and kept the record of s1
C13_Witness ==
    /\ authr.lastOldCheck = now /\ now > 1 + prefs.authTimeout
    /\ \E s \in Slots : calls[s].kind = "tryAuth" /\ calls[s].id = "s1"
    /\ ~Mapped("s2")
    /\ Mapped("s1") /\ Rec("s1").captcha.id = 2 /\ ~Rec("s1").authd
    /\ made = 2 /\ mgr.readyQue = << >>

\* no sweep was due, and the call of s1 left the expired record of s2 alone
C13_NotDue ==
    /\ authr.lastOldCheck < now /\ now - authr.lastOldCheck <= prefs.authTimeout
    /\ Mapped("s2") /\ Expired(Rec("s2"))
    /\ Mapped("s1") /\ Rec("s1").lastDownloadTime = now /\ ~Rec("s1").authd

(***************************************************************************)
(* The first issuance, checked under Spec                                  *)
(***************************************************************************)
\* id has no record, or one whose authentication is older than authTimeout
Stale(id) ==
    Mapped(id) => Rec(id).authd /\ now - Rec(id).lastAuthTime > prefs.authTimeout

\* r is a record as the constructor leaves it
Blank(r) ==
    /\ r.live /\ ~r.authd /\ r.wrong = 0 /\ r.correct = 0
    /\ r.lastAuthTime = 0 /\ r.lastLimitTime = 0

\* C14: a tryAuth for an id without a record, or with a record whose
\* authentication has expired, discards the old record and asks for a challenge
\* for a new record with zero counters; the record is stored when the
\* challenge is there, and the call reports "new" with it, whatever ans was.
C14_FreshStart ==
    [][/\ \A id \in Subject, ans \in Inputs :
            Stale(id) /\ Tried(id, ans) =>
               /\ ~Mapped(id)'
               /\ \E s \in Slots :
                     /\ calls[s].kind = "idle"
                     /\ calls'[s].kind = "tryAuth" /\ calls'[s].id = id
                     /\ calls'[s].pc \in {"parked", "settled"}
                     /\ calls'[s].ans = ans /\ calls'[s].state = "new"
                     /\ calls'[s].store
                     /\ Blank(heap'[calls'[s].rec]) /\ heap'[calls'[s].rec].captcha = NoCh
       /\ \A s \in Slots, id \in Subject :
            calls[s].kind = "tryAuth" /\ calls[s].store /\ calls[s].id = id =>
               \* the challenge is written into the new record
               /\ Writes(s) =>
                     /\ ~Mapped(id) /\ ~Mapped(id)'
                     /\ calls[s].value # NoCh
                     /\ Blank(heap'[calls[s].rec])
                     /\ heap'[calls[s].rec].captcha = calls[s].value
                     /\ heap'[calls[s].rec].lastDownloadTime = now
               \* the record is stored and the result made
               /\ Finishes(s) =>
                     /\ ~Mapped(id) /\ Mapped(id)'
                     /\ authr'.map[id] = calls[s].rec
                     /\ Blank(Rec(id)')
                     /\ Rec(id)'.captcha = calls[s].value
                     /\ Rec(id)'.lastDownloadTime <= now
                     /\ calls'[s].result =
                           [op |-> "tryAuth", ans |-> calls[s].ans, state |-> "new",
                            challenge |-> calls[s].value.id]
               \* the caller receives "new" with the challenge of its record
               /\ Delivers(s) =>
                     /\ Mapped(id) /\ authr' = authr
                     /\ calls[s].result =
                           [op |-> "tryAuth", ans |-> calls[s].ans, state |-> "new",
                            challenge |-> Rec(id).captcha.id]]_vars

\* an answer sent after the authentication had expired came back as "new" with
\* a later challenge, held by a record without credit or penalty
C14_Witness ==
    /\ Mapped("s1") /\ Blank(Rec("s1"))
    /\ Rec("s1").lastDownloadTime = now
    /\ \E s \in Done :
          /\ calls[s].result.op = "tryAuth" /\ calls[s].result.state = "new"
          /\ IsAnswer(calls[s].ans) /\ calls[s].store
          /\ Rec("s1").captcha.id = calls[s].result.challenge
          /\ calls[s].result.challenge >= 2

(***************************************************************************)
(* The counters and the steps of the cascade, checked under Spec           *)
(***************************************************************************)
\* the step keeps the record object of id in the map
SameRecord(id) == Mapped(id) /\ authr'.map[id] = authr.map[id]

\* ans is accepted for the challenge of id: the same letters, not too fast
AcceptedFor(id, ans) ==
    /\ IsAnswer(ans) /\ SameLetters(ans, Rec(id).captcha.answer)
    /\ now - Rec(id).lastDownloadTime >= prefs.tooFast

C23_Step ==
    \* wrongCount goes down only in a cooldown drop, to 0
    /\ \A id \in Subject :
          SameRecord(id) /\ Rec(id)'.wrong < Rec(id).wrong =>
             /\ Rec(id)'.wrong = 0
             /\ Rec(id).wrong > prefs.maxWrong * Half
             /\ now - Rec(id).lastLimitTime > prefs.dropWrongAfter
             /\ \E ans \in Inputs : Tried(id, ans)
    \* an accepted answer leaves it as it is
    /\ \A id \in Subject, ans \in Inputs :
          Timely(id) /\ AcceptedFor(id, ans) /\ Tried(id, ans) =>
             /\ SameRecord(id)
             /\ Rec(id)'.wrong = Rec(id).wrong
             /\ Rec(id)'.correct = Rec(id).correct + Half

\* C23: wrongCount is never negative, it goes down only in a cooldown drop,
\* which sets it to 0, and an accepted answer ("more" or "success") leaves
\* it unchanged, with resetOnWrong on or off.
C23_WrongCount ==
    /\ [](\A x \in Addrs : heap[x].wrong >= 0)
    /\ [][C23_Step]_vars

\* a regen and a wrong answer, then the accepted answer: "success" with the
\* wrong count still at 1.5
C23_Witness ==
    /\ Mapped("s1") /\ Rec("s1").authd /\ Rec("s1").wrong = 3
    /\ \E s \in Done :
          /\ calls[s].result.op = "tryAuth" /\ calls[s].result.state = "success"
          /\ IsAnswer(calls[s].ans)
          /\ SameLetters(calls[s].ans, Rec("s1").captcha.answer)

\* C24: tryAuth with the empty answer on a record that is neither
\* authenticated, expired nor limited returns "new" with the record's current
\* challenge, changes no record and pops nothing from the queue.
C24_EmptyAnswerReads ==
    [][\A id \in Subject :
          /\ Mapped(id) /\ ~Rec(id).authd /\ Rec(id).wrong <= prefs.maxWrong * Half
          /\ Tried(id, Empty)
          => /\ Ends([op |-> "tryAuth", ans |-> Empty, state |-> "new",
                       challenge |-> Rec(id).captcha.id])
             /\ Rec(id).captcha.id # 0
             /\ authr'.map = authr.map
             /\ heap' = heap
             /\ mgr' = mgr]_vars

\* a record with a penalty, asked with the empty answer some time after its
\* second challenge was issued, while the third is ready in the queue
C24_Witness ==
    /\ \E s \in Done :
          calls[s].result = [op |-> "tryAuth", ans |-> Empty, state |-> "new", challenge |-> 2]
    /\ Mapped("s1") /\ Rec("s1").captcha.id = 2 /\ Rec("s1").wrong = Half
    /\ ~Rec("s1").authd /\ Rec("s1").lastDownloadTime < now
    /\ Len(mgr.readyQue) > 0 /\ mgr.readyQue[1].id = 3

\* C28: on a record that is neither limited nor authenticated, an answer that
\* comes later than answerTimeout after the challenge is not compared: it
\* adds wrongOnTooLong to wrongCount and leaves correctCount; the call
\* reports "limit" without a reissue if the record is limited now, and
\* "timeout" with a fresh challenge otherwise.
C28_TimeoutStep ==
    [][/\ \A id \in Subject, ans \in Inputs :
            /\ Mapped(id) /\ ~Rec(id).authd /\ Rec(id).wrong <= prefs.maxWrong * Half
            /\ now - Rec(id).lastDownloadTime > prefs.answerTimeout
            /\ IsAnswer(ans)
            /\ Tried(id, ans)
            => /\ SameRecord(id)
               /\ Rec(id)'.wrong = Rec(id).wrong + prefs.wrongOnTooLong
               /\ Rec(id)'.correct = Rec(id).correct
               /\ ~Rec(id)'.authd
               /\ Rec(id)'.captcha = Rec(id).captcha
               /\ IF Rec(id).wrong + prefs.wrongOnTooLong > prefs.maxWrong * Half
                  THEN /\ Returns(ans, "limit")
                       /\ Rec(id)'.lastLimitTime = now
                  ELSE /\ Suspends(id, ans, "timeout")
                       /\ Rec(id)'.lastLimitTime = Rec(id).lastLimitTime
       /\ \A s \in Slots :
            calls[s].state = "timeout" /\ Resumed(s) => Reissued(s, "timeout")]_vars

\* the matching answer came too late: the call waits for the challenge that
\* goes with "timeout", the record has half a wrong answer and no credit
C28_Witness ==
    \E s \in Slots :
        /\ calls[s].kind = "tryAuth" /\ calls[s].state = "timeout"
        /\ SameLetters(calls[s].ans, heap[calls[s].rec].captcha.answer)
        /\ heap[calls[s].rec].wrong = prefs.wrongOnTooLong
        /\ heap[calls[s].rec].correct = 0
        /\ now - heap[calls[s].rec].lastDownloadTime > prefs.answerTimeout

\* two wrong answers, then an answer that came too late: "limit"
C28_Limit ==
    /\ \E s \in Done :
          /\ calls[s].result.op = "tryAuth" /\ calls[s].result.state = "limit"
          /\ IsAnswer(calls[s].ans)
    /\ Mapped("s1") /\ Rec("s1").wrong = 2 * Half + prefs.wrongOnTooLong
    /\ Rec("s1").lastLimitTime = now
    /\ now - Rec("s1").lastDownloadTime > prefs.answerTimeout

\* what tryAuth(id, 'regen') reports, and the reissue that goes with "new"
RegenReports(id) ==
    /\ SameRecord(id)
    /\ Rec(id)'.correct = Rec(id).correct
    /\ Rec(id)'.authd = Rec(id).authd
    /\ Rec(id)'.captcha = Rec(id).captcha
    /\ IF Rec(id)'.wrong > prefs.maxWrong * Half
       THEN Returns(Regen, "limit")
       ELSE Suspends(id, Regen, "new")

\* C29 as stated: 'regen' on a record that is not authenticated adds
\* onRegenWrong to wrongCount, then attempts the cooldown drop, and reports
\* "limit" if the record is limited then and "new" with a fresh challenge
\* otherwise; correctCount is unchanged.
C29_RegenAlwaysAdds ==
    [][\A id \in Subject :
          Mapped(id) /\ ~Rec(id).authd /\ Tried(id, Regen) =>
             /\ RegenReports(id)
             /\ Rec(id)'.wrong = IF Cooled(id) THEN 0
                                 ELSE Rec(id).wrong + prefs.onRegenWrong]_vars

\* C29: 'regen' on a record that is not authenticated adds onRegenWrong to
\* wrongCount unless the record is limited already, then attempts the cooldown
\* drop, and reports "limit" if the record is limited then and "new" with a
\* fresh challenge otherwise; correctCount is unchanged, and neither the
\* timeout nor the comparison is applied.
C29_Regen ==
    [][/\ \A id \in Subject :
            Mapped(id) /\ ~Rec(id).authd /\ Tried(id, Regen) =>
               /\ RegenReports(id)
               /\ Rec(id)'.wrong = IF Cooled(id) THEN 0
                                   ELSE IF Cooling(id) THEN Rec(id).wrong
                                   ELSE Rec(id).wrong + prefs.onRegenWrong
               /\ Rec(id)'.lastLimitTime =
                     IF ~Cooling(id) /\ ~Cooled(id) /\ Rec(id)'.wrong > prefs.maxWrong * Half
                     THEN now ELSE Rec(id).lastLimitTime
       /\ \A s \in Slots :
            /\ calls[s].kind = "tryAuth" /\ calls[s].ans = Regen /\ ~calls[s].store
            /\ calls[s].rec # 0 /\ Resumed(s)
            => Reissued(s, "new")]_vars

\* a late 'regen' on a record with two wrong answers: "limit" at 2.5
C29_Witness ==
    /\ Returned(Regen, "limit")
    /\ Mapped("s1") /\ Rec("s1").wrong = 2 * Half + prefs.onRegenWrong
    /\ Rec("s1").lastLimitTime = now
    /\ now - Rec("s1").lastDownloadTime > prefs.answerTimeout

\* 'regen' on a fresh record: "new" with the second challenge, at 0.5
C29_New ==
    /\ \E s \in Done :
          calls[s].result = [op |-> "tryAuth", ans |-> Regen, state |-> "new", challenge |-> 2]
    /\ Mapped("s1") /\ Rec("s1").wrong = prefs.onRegenWrong /\ Rec("s1").captcha.id = 2

\* C30: with requiredAnswers = n > 1 each accepted answer adds exactly 1 to
\* correctCount and reports "more" with a fresh challenge, until the n-th
\* reports "success"; a wrong or too-fast answer sets correctCount to 0 under
\* resetOnWrong and leaves it otherwise.
C30_Progress ==
    [][/\ \A id \in Subject, ans \in Inputs :
            /\ prefs.requiredAnswers > 1
            /\ Timely(id) /\ AcceptedFor(id, ans) /\ Tried(id, ans)
            => /\ SameRecord(id)
               /\ Rec(id)'.correct = Rec(id).correct + Half
               /\ IF Rec(id).correct + Half >= prefs.requiredAnswers * Half
                  THEN /\ Returns(ans, "success")
                       /\ Rec(id)'.authd
                  ELSE /\ Suspends(id, ans, "more")
                       /\ ~Rec(id)'.authd
       /\ \A id \in Subject, ans \in Inputs :
            /\ prefs.requiredAnswers > 1
            /\ Timely(id) /\ IsAnswer(ans) /\ WrongFor(id, ans) /\ Tried(id, ans)
            => /\ SameRecord(id)
               /\ Rec(id)'.correct = IF prefs.resetOnWrong THEN 0 ELSE Rec(id).correct
               /\ ~Rec(id)'.authd
       /\ \A s \in Slots :
            calls[s].state = "more" /\ Resumed(s) => Reissued(s, "more")]_vars

\* two answers required, resetOnWrong on: accepted, wrong, accepted, accepted;
\* the fourth challenge was the one answered with "success"
C30_Witness ==
    /\ prefs.requiredAnswers = 2 /\ prefs.resetOnWrong
    /\ Mapped("s1") /\ Rec("s1").authd
    /\ Rec("s1").correct = 2 * Half /\ Rec("s1").wrong = Half
    /\ Rec("s1").captcha.id = 4
    /\ \E s \in Done : calls[s].result.op = "tryAuth" /\ calls[s].result.state = "success"

\* two answers required, resetOnWrong off: the first credit has outlived a
\* wrong answer, and the call waits for the challenge that goes with "wrong"
C30_CreditKept ==
    \E s \in Slots :
        /\ prefs.requiredAnswers = 2 /\ ~prefs.resetOnWrong
        /\ calls[s].kind = "tryAuth" /\ calls[s].state = "wrong"
        /\ heap[calls[s].rec].correct = Half /\ heap[calls[s].rec].wrong = Half
        /\ now - heap[calls[s].rec].lastDownloadTime >= prefs.tooFast

\* C31: a record is limited exactly when wrongCount > maxWrong: at wrongCount
\* = maxWrong an answer is still evaluated, and while a record is limited and
\* its cooldown has not elapsed no tryAuth changes the record (counters,
\* lastLimitTime, challenge) or takes a challenge from the queue.
C31_LimitedBypass ==
    [][/\ \A id \in Subject, ans \in Inputs :
            Cooling(id) /\ Tried(id, ans) =>
               /\ authr'.map = authr.map
               /\ heap' = heap
               /\ mgr' = mgr
               /\ \/ Returns(ans, "limit")
                  \/ Ends([op |-> "tryAuth", ans |-> ans, state |-> "new",
                           challenge |-> Rec(id).captcha.id])
       /\ \A id \in Subject, ans \in Inputs :
            /\ Timely(id) /\ Rec(id).wrong = prefs.maxWrong * Half
            /\ AcceptedFor(id, ans) /\ Tried(id, ans)
            => /\ Rec(id)'.correct = Rec(id).correct + Half
               /\ Rec(id)'.wrong = Rec(id).wrong
       /\ \A id \in Subject, ans \in Inputs :
            /\ Timely(id) /\ Rec(id).wrong = prefs.maxWrong * Half
            /\ IsAnswer(ans) /\ WrongFor(id, ans) /\ Tried(id, ans)
            => /\ Returns(ans, "limit")
               /\ Rec(id)'.wrong = Rec(id).wrong + Half]_vars

\* limited at 3 by a third wrong answer; a 'regen' sent during the cooldown
\* got "limit", and the count is still 3
C31_Witness ==
    /\ Returned(Regen, "limit")
    /\ Mapped("s1") /\ Rec("s1").wrong = 3 * Half
    /\ now > Rec("s1").lastLimitTime
    /\ now - Rec("s1").lastLimitTime <= prefs.dropWrongAfter

\* two wrong answers and no more: the third answer, a right one, counted
C31_AtMax ==
    /\ prefs.requiredAnswers = 1
    /\ Mapped("s1") /\ Rec("s1").authd /\ Rec("s1").wrong = 2 * Half
    /\ Rec("s1").captcha.id = 3
    /\ \E s \in Done : IsAnswer(calls[s].ans) /\ calls[s].result.state = "success"

(***************************************************************************)
(* The default comparator, checked under SpecChecker                       *)
(***************************************************************************)
\* the characters of a string: its code points
Characters(str) == CodePoints(str, 1)

\* the two sequences hold the same elements, each as often
Permutation(a, b) ==
    \A c \in {a[i] : i \in 1..Len(a)} \cup {b[i] : i \in 1..Len(b)} :
        Occurs(a, c) = Occurs(b, c)

\* the characters, each replaced by its own lower case, whatever stands
\* around it
RECURSIVE Fold(_)
Fold(cs) == IF cs = <<>> THEN <<>> ELSE LowerCase(Head(cs)) \o Fold(Tail(cs))

\* the two strings hold the same letters, each as often, in whatever case and
\* order
SameUpToCaseAndOrder(a, b) == Permutation(Fold(Characters(a)), Fold(Characters(b)))

\* C26: the default comparator accepts ans exactly when, both strings
\* lower-cased, the characters of ans are a permutation of the characters of
\* the challenge's answer; it accepts the letters of the answer in whatever
\* case and order; it gives the same with its arguments exchanged; an answer
\* with a character missing, added or replaced is rejected.
C26_CaseAndOrderInsensitive ==
    last.op = "checkAnswer" =>
        /\ last.state = "true" <=>
              Permutation(Characters(ToLowerCase(last.ans)),
                          Characters(ToLowerCase(heap[1].captcha.answer)))
        /\ SameUpToCaseAndOrder(last.ans, heap[1].captcha.answer) =>
              last.state = "true"
        /\ DefaultChecker(last.ans, heap[1].captcha.answer)
              = DefaultChecker(heap[1].captcha.answer, last.ans)

\* the order matters: a capital sigma before A is rejected for A before a
\* capital sigma, whose lower case is the final small sigma
C26_OrderMatters ==
    /\ last.op = "checkAnswer" /\ last.state = "false"
    /\ last.ans = <<931, 65>>
    /\ heap[1].captcha.answer = <<65, 931>>

\* the case matters: a followed by the small sigma is rejected for A followed
\* by the capital sigma
C26_CaseMatters ==
    /\ last.op = "checkAnswer" /\ last.state = "false"
    /\ last.ans = <<97, 963>>
    /\ heap[1].captcha.answer = <<65, 931>>

\* other characters are accepted: the halves of two surrogate pairs, put
\* together the other way, are two characters the answer does not hold
C26_OtherCharacters ==
    /\ last.op = "checkAnswer" /\ last.state = "true"
    /\ last.ans = <<55297, 56610, 55354, 56360>>
    /\ heap[1].captcha.answer = <<55297, 56360, 55354, 56610>>

\* what the code does: it accepts ans exactly when the two lower-cased strings
\* hold the same UTF-16 code units, each as often
C26_CodeUnits ==
    last.op = "checkAnswer" =>
        (last.state = "true" <=> SameLetters(last.ans, heap[1].captcha.answer))

\* a string of the Basic Multilingual Plane without a capital sigma
Plain(str) == \A i \in 1..Len(str) : str[i] < 55296 /\ str[i] # 931

\* on such strings the comparator is insensitive to case and order
C26_OnPlainStrings ==
    last.op = "checkAnswer" /\ Plain(last.ans) /\ Plain(heap[1].captcha.answer) =>
        (last.state = "true" <=>
            SameUpToCaseAndOrder(last.ans, heap[1].captcha.answer))

\* "KaA" is accepted for "AAK"
C26_Accepts ==
    /\ last.op = "checkAnswer" /\ last.state = "true"
    /\ last.ans = <<75, 97, 65>>
    /\ heap[1].captcha.answer = <<65, 65, 75>>

\* the two code units of a lower-case dotted i, in either order, are accepted
\* for the single code unit of I with dot above
C26_Dotted ==
    /\ last.op = "checkAnswer" /\ last.state = "true"
    /\ last.ans = <<775, 97, 105>>
    /\ heap[1].captcha.answer = <<65, 304>>

\* "AKK" is rejected for "AAK": the same letters, not as often
C26_Rejects ==
    /\ last.op = "checkAnswer" /\ last.state = "false"
    /\ last.ans = <<65, 75, 75>>
    /\ heap[1].captcha.answer = <<65, 65, 75>>

\* A followed by the Kelvin sign is accepted for "AK"
C26_Kelvin ==
    /\ last.op = "checkAnswer" /\ last.state = "true"
    /\ last.ans = <<65, 8490>>
    /\ heap[1].captcha.answer = <<65, 75>>

\* a capital sigma that ends a word, a combining mark between it and the
\* letter before, is accepted for the final small sigma
C26_FinalSigma ==
    /\ last.op = "checkAnswer" /\ last.state = "true"
    /\ last.ans = <<65, 775, 931>>
    /\ heap[1].captcha.answer = <<97, 775, 962>>

\* a capital sigma on its own is not a final one
C26_LoneSigma ==
    /\ last.op = "checkAnswer" /\ last.state = "false"
    /\ last.ans = <<931>>
    /\ heap[1].captcha.answer = <<962>>

\* the capital letter written as a surrogate pair is accepted for its small
\* letter
C26_Astral ==
    /\ last.op = "checkAnswer" /\ last.state = "true"
    /\ last.ans = <<55297, 56320>>
    /\ heap[1].captcha.answer = <<55297, 56360>>

(***************************************************************************)
(* Capacity and backpressure, checked under SpecMgr                        *)
(***************************************************************************)
\* C15: capacity is at least 2 in every reachable state; a firing of the
\* cutback timer lowers it by exactly 1 when capacity > 2 and
\* ready/capacity > 0.9 and leaves it alone otherwise; nothing else lowers it.
C15_CapacityFloor == mgr.capacity >= 2

\* C15, the cutback step and the absence of any other decrease
C15_CutbackStep ==
    [][/\ Cutback =>
            mgr'.capacity = IF mgr.capacity > 2 /\ Len(mgr.readyQue) * 10 > 9 * mgr.capacity
                            THEN mgr.capacity - 1 ELSE mgr.capacity
       /\ mgr'.capacity < mgr.capacity =>
            /\ mgr.capacityDynamic
            /\ mgr.cutback = "live" \/ mgr.cutLeak
            /\ mgr.capacity > 2 /\ Len(mgr.readyQue) * 10 > 9 * mgr.capacity
            /\ mgr' = [mgr EXCEPT !.capacity = @ - 1]
            /\ UNCHANGED <<creating, made, calls>>]_vars

\* C15, for a queue constructed with initialCapacity >= 2
C15_FloorKept ==
    [][mgr.capacity >= 2 => mgr'.capacity >= 2]_vars

\* challenges requested and challenges ready
Stock(m) == m.pendingCaptchas + Len(m.readyQue)

C16_Step ==
    \* requests are issued only below capacity, and up to capacity
    /\ mgr'.pendingCaptchas > mgr.pendingCaptchas =>
          /\ Stock(mgr) < mgr.capacity
          /\ Stock(mgr') = mgr.capacity
          /\ mgr'.capacity = mgr.capacity
          /\ creating' - creating = mgr'.pendingCaptchas - mgr.pendingCaptchas
    \* only a cutback takes the stock above capacity
    /\ Stock(mgr) <= mgr.capacity /\ Stock(mgr') > mgr'.capacity =>
          /\ mgr'.capacity = mgr.capacity - 1
          /\ Stock(mgr') = Stock(mgr)
          /\ mgr.capacityDynamic

\* C16: pendingCount >= 0 always; requests are issued only while pendingCount
\* + ready < capacity, so that the sum exceeds capacity only once a cutback
\* has lowered capacity; with capacityDynamic off the sum never exceeds it.
C16_Backpressure ==
    /\ [](mgr.pendingCaptchas >= 0)
    /\ [](~mgr.capacityDynamic => Stock(mgr) <= mgr.capacity)
    /\ [][C16_Step]_vars

\* a cutback from 3 to 2 with three challenges ready: the stock is above the
\* capacity, and no request is pending
C16_Witness ==
    /\ mgr.capacityDynamic /\ mgr.capacity = 2
    /\ Len(mgr.readyQue) = 3 /\ mgr.pendingCaptchas = 0 /\ creating = 0
    /\ Stock(mgr) > mgr.capacity

\* capacityDynamic off, direct mode: after a failure and a pop the tick has
\* filled the stock up to the capacity again
C16_Fixed ==
    /\ ~mgr.capacityDynamic /\ ~mgr.forks /\ mgr.capacity = 3
    /\ Len(mgr.readyQue) = 1 /\ mgr.pendingCaptchas = 2 /\ creating = 1
    /\ made = 2

\* C17: a failed production request frees its slot: pendingCount goes down by
\* one, nothing is delivered to the ready buffer or to a parked consumer, and
\* no request is made in its place.
C17_FailureFreesSlot ==
    [][CreateFailed =>
          /\ mgr'.pendingCaptchas = mgr.pendingCaptchas - 1
          /\ mgr'.readyQue = mgr.readyQue
          /\ mgr'.awaitingQue = mgr.awaitingQue
          /\ calls' = calls
          /\ creating' = creating - 1]_vars

\* C17, for the worker: an {err} reply frees the slot, and the tick that
\* follows asks for as many challenges as are missing, the failed one included
C17_WorkerFailure ==
    [][/\ mgr.forks /\ CreateFailed =>
            /\ mgr' = [mgr EXCEPT !.pendingCaptchas = @ - 1]
            /\ calls' = calls /\ creating' = creating - 1 /\ made' = made
       /\ Tick /\ ~mgr.terminate /\ Stock(mgr) < mgr.capacity =>
            /\ creating' = creating + (mgr.capacity - Stock(mgr))
            /\ Stock(mgr') = mgr.capacity]_vars

\* direct mode: both requests have failed, nothing is in production, and the
\* two slots are still counted as pending
C17_Leak ==
    /\ ~mgr.forks /\ ~mgr.terminate /\ mgr.ticking = "live"
    /\ mgr.capacity = 2 /\ ~mgr.capacityDynamic
    /\ mgr.pendingCaptchas = 2 /\ creating = 0 /\ made = 0

\* C19 as stated: with capacityDynamic on, a popCaptcha() after which at most
\* 2 challenges are ready raises capacity by exactly 1, and one that leaves
\* more than 2 ready leaves capacity as it is.
C19_SignalOnWhatIsLeft ==
    [][\A s \in Slots :
          PopCalled(s) /\ mgr.capacityDynamic =>
             mgr'.capacity = IF Len(mgr'.readyQue) <= 2
                             THEN mgr.capacity + 1 ELSE mgr.capacity]_vars

\* C19: with capacityDynamic on, a popCaptcha() that finds at most 2
\* challenges ready, counted before it takes one, raises capacity by exactly
\* 1, and one that finds more than 2 leaves capacity as it is.
C19_DemandSignal ==
    [][\A s \in Slots :
          PopCalled(s) /\ mgr.capacityDynamic =>
             mgr'.capacity = IF Len(mgr.readyQue) <= 2
                             THEN mgr.capacity + 1 ELSE mgr.capacity]_vars

\* three challenges were ready at capacity 3, a cutback made it 2, and the
\* pop that took the first challenge left two ready and the capacity at 2
C19_Witness ==
    /\ mgr.capacityDynamic /\ mgr.capacity = 2 /\ made = 3
    /\ Len(mgr.readyQue) = 2 /\ mgr.readyQue[1].id = 2 /\ mgr.readyQue[2].id = 3
    /\ mgr.awaitingQue = << >>
    /\ calls[1].kind = "pop" /\ calls[1].pc = "settled" /\ calls[1].value.id = 1

\* C20: with capacityDynamic false no step changes capacity (nor
\* capacityDynamic), so capacity keeps its initial value.
C20_FixedCapacity ==
    [][~mgr.capacityDynamic =>
          /\ mgr'.capacity = mgr.capacity
          /\ ~mgr'.capacityDynamic]_vars

\* capacityDynamic off, capacity 3: a pop took the first challenge, and three
\* challenges are ready again, which is where a cutback would act
C20_Witness ==
    /\ ~mgr.capacityDynamic /\ mgr.capacity = 3
    /\ Len(mgr.readyQue) = 3 /\ made = 4
    /\ calls[1].kind = "pop" /\ calls[1].pc = "settled" /\ calls[1].value.id = 1
    /\ mgr.ticking = "live"

\* the step parks the popCaptcha() it takes into slot s
Parks(s) == PopCalled(s) /\ calls'[s].pc = "parked"

\* C25: a popCaptcha() that cannot be served from the ready buffer prompts
\* creation at once: a production request is issued (pendingCount raised)
\* before the call returns.
C25_PopPromptsCreation ==
    [][\A s \in Slots :
          Parks(s) => /\ mgr'.pendingCaptchas > mgr.pendingCaptchas
                      /\ creating' > creating]_vars

\* C25, what the code does: a popCaptcha() issues no request; a parking one
\* raises at most the capacity, and the request waits for the next tick
C25_PopIssuesNothing ==
    [][\A s \in Slots :
          PopCalled(s) => /\ mgr'.pendingCaptchas = mgr.pendingCaptchas
                          /\ creating' = creating]_vars

\* a consumer is parked on a begun queue and nothing has been requested
C25_Unprompted ==
    /\ mgr.ticking = "live" /\ ~mgr.terminate
    /\ calls[1].pc = "parked" /\ mgr.awaitingQue = <<1>>
    /\ mgr.pendingCaptchas = 0 /\ creating = 0 /\ made = 0

\* the number of requests a tick owes
Owed(m) ==
    IF m.capacity - (m.pendingCaptchas + Len(m.readyQue)) > 0
    THEN m.capacity - (m.pendingCaptchas + Len(m.readyQue)) ELSE 0

\* C27: a tick on a queue that is not terminated issues exactly
\* max(0, capacity - (pendingCount + ready)) requests, each raising
\* pendingCount by 1, so that pendingCount + ready >= capacity afterwards; it
\* changes nothing else, and the parked consumers do not count.
C27_TickDeficit ==
    [][Tick /\ ~mgr.terminate =>
          /\ mgr' = [mgr EXCEPT !.pendingCaptchas = @ + Owed(mgr)]
          /\ creating' = creating + Owed(mgr)
          /\ Stock(mgr') >= mgr'.capacity
          /\ calls' = calls /\ made' = made]_vars

\* capacity 2, fixed: two consumers are parked, and the tick has issued two
\* requests, not four
C27_Witness ==
    /\ ~mgr.terminate /\ ~mgr.capacityDynamic /\ mgr.capacity = 2
    /\ Len(mgr.awaitingQue) = 2
    /\ mgr.pendingCaptchas = 2 /\ creating = 2 /\ made = 0

(***************************************************************************)
(* terminate(), checked under SpecMgr                                      *)
(***************************************************************************)
\* the fields of the queue proper
Queue(m) == <<m.capacity, m.pendingCaptchas, m.readyQue, m.awaitingQue, m.terminate>>

\* C21: once terminate() was called no production request is issued any more,
\* begin() or not; terminate() on a terminated queue changes no queue state,
\* and nothing at all unless begin() restarted a timer in between.
C21_TerminateStops ==
    [][mgr.terminate =>
          /\ mgr'.terminate
          /\ mgr'.pendingCaptchas <= mgr.pendingCaptchas
          /\ creating' <= creating
          /\ Terminate =>
                /\ Queue(mgr') = Queue(mgr)
                /\ mgr.ticking # "live" /\ mgr.cutback # "live" => mgr' = mgr]_vars

\* terminated, begun again: the tick timer is live and challenges are missing,
\* yet nothing is requested
C21_Witness ==
    /\ mgr.terminate /\ mgr.ticking = "live"
    /\ Stock(mgr) < mgr.capacity
    /\ mgr.pendingCaptchas = 0 /\ creating = 0 /\ Len(mgr.readyQue) = 1

\* the step settles a parked consumer
Settles(s) == calls[s].pc = "parked" /\ calls'[s].pc # "parked"

\* C22 as stated: terminate() settles no parked consumer and removes none
\* from the FIFO, and on a terminated queue a parked consumer is never settled.
C22_NeverSettledAfterTerminate ==
    [][/\ Terminate => calls' = calls /\ mgr'.awaitingQue = mgr.awaitingQue
       /\ \A s \in Slots : mgr.terminate => ~Settles(s)]_vars

\* C22: terminate() settles no parked consumer and removes none from the
\* FIFO; on a terminated queue a parked consumer is settled only by the
\* completion of a request issued before terminate(), and never once no
\* request is in production.
C22_TerminateLeavesParked ==
    [][/\ Terminate => calls' = calls /\ mgr'.awaitingQue = mgr.awaitingQue
       /\ \A s \in Slots :
            mgr.terminate /\ Settles(s) =>
               /\ creating > 0 /\ Completes
               /\ s = Head(mgr.awaitingQue)
       /\ mgr.terminate /\ creating = 0 => creating' = 0]_vars

\* direct mode, terminated with a consumer parked and nothing in production:
\* the consumer stays parked
C22_Witness ==
    /\ mgr.terminate /\ ~mgr.forks /\ creating = 0
    /\ mgr.awaitingQue = <<1>> /\ calls[1].pc = "parked"
    /\ mgr.ticking = "closed"

(***************************************************************************)
(* Liveness of the manager, checked under SpecLive                         *)
(***************************************************************************)
\* the call in slot s is settled, or the generator has produced all the
\* challenges of the behaviour
Served(s) == calls[s].pc # "parked" \/ made = MaxChallenges

\* C18: in a begun queue that is not terminated and whose ticks keep firing,
\* with a generator that fails finitely often, every parked popCaptcha() is
\* eventually settled, in direct and in worker mode, with capacityDynamic on
\* and off.
C18_ParkedIsServed ==
    \A s \in Slots : (calls[s].pc = "parked") ~> Served(s)

\* C18, for the worker mode
C18_WorkerServes ==
    \A s \in Slots : (mgr.forks /\ calls[s].pc = "parked") ~> Served(s)

\* direct mode: a consumer is parked, every slot of the capacity is taken by
\* a request that failed, and nothing is in production
C18_Starved ==
    /\ ~mgr.forks /\ ~mgr.capacityDynamic /\ mgr.capacity = 2
    /\ mgr.pendingCaptchas = 2 /\ creating = 0 /\ made = 0
    /\ calls[1].pc = "parked" /\ mgr.awaitingQue = <<1>>

(***************************************************************************)
(* deAuthAndGenNew and the record it replaces                              *)
(***************************************************************************)

\* C32: deAuthAndGenNew(id) removes the record of id before it issues the new
\* challenge: while the operation is suspended in popCaptcha(), id is not
\* authenticated.
C32_OldRecordGone ==
    \A s \in Slots, id \in Subject :
        calls[s].kind = "deAuthAndGenNew" /\ calls[s].id = id => ~IsAuthd(id)

(***************************************************************************)
(* Calls for one id that overlap, checked under SpecRace                   *)
(***************************************************************************)

\* the step is a tryAuth(id, ans), whatever else is suspended
Called(id, ans) ==
    /\ now' = now /\ made' = made /\ creating' = creating
    /\ TryAuth(id, ans)

\* two calls for one id are suspended at once
Overlap ==
    \E s, t \in Slots : s # t /\ calls[s].id = calls[t].id /\ calls[s].kind = "tryAuth"
                               /\ calls[t].kind = "tryAuth"

\* C33: nothing excludes a second tryAuth(id) while a first one is suspended
\* in popCaptcha(): the second call evaluates its answer against the challenge
\* the first has not replaced yet, or creates a second record, and a record
\* stored on resumption overwrites the one the map holds.  Two calls for one
\* id are suspended together only when the caller started the second during
\* the first.
C33_NoMutualExclusion ==
    [][/\ \A id \in Subject, ans \in RaceInputs :
            /\ ~NoCallFor(id) /\ Timely(id) /\ AcceptedFor(id, ans)
            /\ Called(id, ans)
            => /\ authr'.map[id] = authr.map[id]
               /\ Rec(id)'.correct = Rec(id).correct + Half
               /\ Rec(id)'.captcha = Rec(id).captcha
       /\ \A id \in Subject, ans \in RaceInputs :
            ~NoCallFor(id) /\ ~Mapped(id) /\ Called(id, ans) =>
               \E s \in Slots :
                  /\ calls[s].kind = "idle"
                  /\ calls'[s].id = id /\ calls'[s].store
                  /\ \A t \in Slots : calls[t].rec # calls'[s].rec
       /\ \A s \in Slots :
            calls[s].store /\ Finishes(s) =>
               authr'.map[calls[s].id] = calls[s].rec
       /\ ~Overlap /\ Overlap' =>
            \E id \in Subject, ans \in RaceInputs : ~NoCallFor(id) /\ Called(id, ans)]_vars

\* requiredAnswers = 2 and one challenge issued: the record is authenticated
\* by two answers to the first challenge, the second given while the reissue
\* after the first was pending
C33_Witness ==
    /\ prefs.requiredAnswers = 2
    /\ Mapped("s1") /\ Rec("s1").authd /\ Rec("s1").correct = 2 * Half
    /\ Rec("s1").captcha.id = 1
    /\ \E s \in Slots : calls[s].rec = authr.map["s1"] /\ calls[s].state = "more"

\* the map holds the record of one call while a second record, created by an
\* overlapping call for the same id, waits to be stored over it
C33_SecondRecord ==
    /\ Mapped("s1")
    /\ \E s \in Slots : /\ calls[s].id = "s1" /\ calls[s].store
                        /\ calls[s].rec # authr.map["s1"]

\* two calls on one record were resumed in one turn: both report "wrong"
\* with the challenge written last, and the other challenge goes to nobody
C33_BothLatest ==
    \E s, t \in Slots :
        /\ s # t /\ calls[s].rec = calls[t].rec
        /\ calls[s].pc = "done" /\ calls[t].pc = "done"
        /\ calls[s].result.state = "wrong" /\ calls[t].result.state = "wrong"
        /\ calls[s].value.id # calls[t].value.id
        /\ calls[s].result.challenge = calls[t].value.id
        /\ calls[t].result.challenge = calls[t].value.id
        /\ heap[calls[s].rec].captcha = calls[t].value

\* with the calls serialised per id neither state is reached
C33_Serialised == ~Overlap /\ ~C33_Witness /\ ~C33_SecondRecord

(***************************************************************************)
(* The two queues of the manager, checked under SpecMgr                    *)
(***************************************************************************)

C34_Exclusive == mgr.readyQue = << >> \/ mgr.awaitingQue = << >>

C34_Step ==
    \* a challenge is buffered only by a completion that finds nobody parked
    /\ Len(mgr'.readyQue) > Len(mgr.readyQue) =>
          /\ Completes
          /\ mgr.awaitingQue = << >>
          /\ mgr'.awaitingQue = << >>
    \* a caller is parked only when nothing is buffered
    /\ Len(mgr'.awaitingQue) > Len(mgr.awaitingQue) =>
          /\ mgr.readyQue = << >>
          /\ mgr'.readyQue = << >>

\* C34: the ready buffer and the parked FIFO are never both non-empty: a
\* challenge is buffered only when nobody is parked, a caller is parked only
\* when nothing is buffered.
C34_NeverBoth == []C34_Exclusive /\ [][C34_Step]_vars

\* two challenges were made and taken; a third consumer is parked while a
\* request is pending, with the buffer empty
C34_Witness ==
    /\ made = 2
    /\ mgr.readyQue = << >>
    /\ Len(mgr.awaitingQue) = 1
    /\ mgr.pendingCaptchas >= 1
    /\ \A s \in Slots : calls[s].pc # "settled"

\* the consumers whose popCaptcha() has been given a challenge they have not
\* taken away yet
Delivered == {s \in Slots : calls[s].pc = "settled"}

\* the challenges the manager or a resolved promise holds
HeldIds ==
    {mgr.readyQue[i].id : i \in 1..Len(mgr.readyQue)} \cup
    {calls[s].value.id : s \in Delivered}

\* every challenge held was made, and is held once
C35_Once ==
    /\ Cardinality(HeldIds) = Len(mgr.readyQue) + Cardinality(Delivered)
    /\ \A c \in HeldIds : c >= 1 /\ c <= made

C35_Step ==
    \* the challenge that completes is held from then on, in one place
    /\ Completes =>
          /\ made' \notin HeldIds
          /\ HeldIds' = HeldIds \cup {made'}
          /\ \E answer \in Answers :
                \/ /\ mgr'.readyQue = Append(mgr.readyQue, Create(made', answer))
                   /\ calls' = calls
                \/ /\ mgr'.readyQue = mgr.readyQue
                   /\ \E s \in Slots :
                        /\ calls[s].pc = "parked"
                        /\ calls' = [calls EXCEPT ![s].pc = "settled",
                                                  ![s].value = Create(made', answer)]
    \* a challenge held leaves only with the one caller it was delivered to
    /\ ~Completes /\ HeldIds' # HeldIds =>
          \E s \in Delivered :
             /\ calls'[s].kind = "idle"
             /\ HeldIds' = HeldIds \ {calls[s].value.id}
    \* a challenge leaves the buffer only for the one caller of popCaptcha()
    /\ Len(mgr'.readyQue) < Len(mgr.readyQue) =>
          /\ mgr'.readyQue = Tail(mgr.readyQue)
          /\ \E s \in Slots :
               /\ calls[s].kind = "idle"
               /\ calls' = [calls EXCEPT ![s] = calls'[s]]
               /\ calls'[s].pc = "settled"
               /\ calls'[s].value = Head(mgr.readyQue)

\* C35: every challenge whose production completed is in the ready buffer
\* exactly once or delivered to exactly one caller of popCaptcha(): none is
\* duplicated, none is dropped.
C35_Conservation == []C35_Once /\ [][C35_Step]_vars

\* three challenges made: the first two delivered to two callers, the third
\* in the buffer
C35_Witness ==
    /\ made = 3
    /\ Len(mgr.readyQue) = 1 /\ mgr.readyQue[1].id = 3
    /\ calls[1].pc = "settled" /\ calls[1].value.id = 1
    /\ calls[2].pc = "settled" /\ calls[2].value.id = 2

(***************************************************************************)
(* The limit window, expiry and the life of a record                       *)
(***************************************************************************)

\* the record of id is limited
Limited(id) == Mapped(id) /\ Rec(id).wrong > prefs.maxWrong * Half

C36_Step ==
    \A id \in Subject :
       \* lastLimitTime is written only when the record becomes limited
       /\ SameRecord(id) /\ Rec(id)'.lastLimitTime # Rec(id).lastLimitTime =>
             /\ ~Limited(id)
             /\ Rec(id)'.wrong > prefs.maxWrong * Half
             /\ Rec(id)'.lastLimitTime = now
       \* no call during the cooldown moves wrongCount or lastLimitTime
       /\ \A ans \in Inputs :
             Cooling(id) /\ Tried(id, ans) =>
                /\ SameRecord(id)
                /\ Rec(id)'.wrong = Rec(id).wrong
                /\ Rec(id)'.lastLimitTime = Rec(id).lastLimitTime
                /\ \E s \in Slots :
                      /\ calls[s].kind = "idle" /\ calls'[s].pc = "done"
                      /\ calls'[s].result.state \in {"limit", "new"}
       \* the first answer or regen after the cooldown lifts the limit
       /\ \A ans \in Inputs :
             Cooled(id) /\ ans # Empty /\ Tried(id, ans) =>
                /\ SameRecord(id)
                /\ Rec(id)'.wrong = 0
                /\ Rec(id)'.lastLimitTime = Rec(id).lastLimitTime
                /\ Suspends(id, ans, "new")
       \* a limited record leaves the limit in no other way
       /\ SameRecord(id) /\ Limited(id) /\ Rec(id)'.wrong <= prefs.maxWrong * Half =>
             now - Rec(id).lastLimitTime > prefs.dropWrongAfter

\* C36: lastLimitTime is written only at the transition from not limited to
\* limited, and a limited record ignores every write to wrongCount: calls
\* during the cooldown move neither, and the limit lifts on the first answer
\* or regen made more than dropWrongAfter after the transition.
C36_LimitWindow == [][C36_Step]_vars

\* limited at time 1, hammered or not: the 'regen' sent at time 4, the first
\* moment after the cooldown of 2, lifted the limit
C36_Witness ==
    /\ Mapped("s1") /\ Rec("s1").wrong = 0
    /\ Rec("s1").lastLimitTime = 1
    /\ now = 4
    /\ \E s \in Done :
          /\ calls[s].result.op = "tryAuth" /\ calls[s].ans = Regen
          /\ calls[s].result.state = "new"
    /\ Rec("s1").lastDownloadTime = 4

C37_Step ==
    \A id \in Subject :
       \* lastAuthTime is written once, when the record becomes authenticated
       /\ SameRecord(id) /\ Rec(id)'.lastAuthTime # Rec(id).lastAuthTime =>
             /\ Rec(id).lastAuthTime = 0 /\ ~Rec(id).authd
             /\ Rec(id)'.authd
             /\ Rec(id)'.lastAuthTime = now
       \* within authTimeout of the authentication every call reports
       \* "success" and refreshes nothing
       /\ \A ans \in Inputs :
             /\ Mapped(id) /\ Rec(id).authd
             /\ now - Rec(id).lastAuthTime <= prefs.authTimeout
             /\ Tried(id, ans)
             => /\ SameRecord(id)
                /\ Rec(id)' = Rec(id)
                /\ Returns(ans, "success")
       \* later than that the record is discarded, whatever calls it received
       /\ \A ans \in Inputs :
             /\ Mapped(id) /\ Rec(id).authd
             /\ now - Rec(id).lastAuthTime > prefs.authTimeout
             /\ Tried(id, ans)
             => /\ authr'.map[id] = 0
                /\ \E s \in Slots : /\ calls'[s].id = id /\ calls'[s].store
                                    /\ ~heap'[calls'[s].rec].authd
                                    /\ heap'[calls'[s].rec].lastAuthTime = 0

\* C37: lastAuthTime is written exactly once per record, at the transition to
\* authenticated; the "success" calls that follow do not refresh it, so the
\* record expires authTimeout after the authentication whatever its use.
C37_AbsoluteExpiry == [][C37_Step]_vars

\* authenticated at time 2 and asked again at time 3, the last moment before
\* the expiry: "success", and lastAuthTime is still 2
C37_Witness ==
    /\ Mapped("s1") /\ Rec("s1").authd
    /\ Rec("s1").lastAuthTime = 2 /\ now = 3
    /\ Returned(Regen, "success")

\* the record that held the first challenge, authenticated at time 2 at the
\* earliest, is discarded by a call made at time 4: a new record is being
\* created and has received the second challenge
C37_Expired ==
    /\ now = 4 /\ ~Mapped("s1") /\ made = 2
    /\ \E s \in Slots : calls[s].id = "s1" /\ calls[s].store /\ calls[s].value.id = 2

\* no record that was never authenticated satisfies expired()
C38_NeverExpired ==
    \A x \in Addrs :
        heap[x].live => /\ heap[x].authd <=> heap[x].lastAuthTime # 0
                        /\ heap[x].lastAuthTime = 0 => ~Expired(heap[x])

C38_Step ==
    \A id \in Subject :
       \* no tryAuth, with or without a sweep, takes the record out of the map
       /\ \A ans \in Inputs :
             Mapped(id) /\ ~Rec(id).authd /\ Tried(id, ans) =>
                authr'.map[id] = authr.map[id]
       \* it leaves the map by deAuth(id), or when deAuthAndGenNew(id) stores
       \* the record that replaces it
       /\ Mapped(id) /\ ~Rec(id).authd /\ authr'.map[id] # authr.map[id] =>
             \/ /\ authr'.map[id] = 0
                /\ calls' = calls /\ mgr' = mgr
             \/ \E s \in Slots :
                   /\ calls[s].kind = "deAuthAndGenNew" /\ calls[s].id = id
                   /\ Finishes(s)
                   /\ authr'.map[id] = calls[s].rec
                   /\ calls'[s].result.op = "deAuthAndGenNew"

\* C38: a record that was never authenticated (lastAuthTime = 0) never
\* satisfies the expiry condition: neither the sweep nor the expiry check of
\* tryAuth removes it; it leaves the map only by deAuth(id) or when
\* deAuthAndGenNew(id) replaces it.
C38_UnauthenticatedStays == []C38_NeverExpired /\ [][C38_Step]_vars

\* a record issued at time 1 and never authenticated is still in the map
\* after the sweep that a tryAuth ran at time 4
C38_Witness ==
    /\ Mapped("s1") /\ ~Rec("s1").authd /\ Rec("s1").lastAuthTime = 0
    /\ Rec("s1").lastDownloadTime = 1
    /\ now = 4 /\ authr.lastOldCheck = 4
    /\ \E s \in Done : calls[s].result.op = "tryAuth" /\ calls[s].id = "s1"

(***************************************************************************)
(* One evaluation per challenge, checked under SpecFaulty                  *)
(***************************************************************************)

\* the next answer for id would be compared with the challenge its record
\* holds now (if it comes before the timeout): no call for id is still to
\* write a challenge into the record
Comparable(id) ==
    /\ Mapped(id) /\ ~Rec(id).authd
    /\ Rec(id).wrong <= prefs.maxWrong * Half
    /\ \A s \in Slots : calls[s].id = id => calls[s].pc \in {"written", "done"}

\* the step is a tryAuth that compares ans with the challenge of id's record
Compares(id, ans) ==
    /\ Timely(id) /\ IsAnswer(ans) /\ prefs.customChecker = "default"
    /\ Tried(id, ans)

\* the step makes id's record comparable with the challenge it already held
SameChallengeAgain(id) ==
    /\ Mapped(id) /\ ~Comparable(id)
    /\ Comparable(id)'
    /\ authr'.map[id] = authr.map[id]
    /\ Rec(id)'.captcha = Rec(id).captcha

\* the step is a tryAuth for id that ends in "error"
Errs(id) == \E ans \in Inputs : Tried(id, ans) /\ Returns(ans, "error")

\* the step resumes a call with a challenge its record did not hold
FreshOnResume ==
    \A s \in Slots :
        calls[s].kind = "tryAuth" /\ Writes(s) =>
           /\ heap'[calls[s].rec].captcha = calls[s].value
           /\ calls[s].value.id # heap[calls[s].rec].captcha.id

\* C39: with the calls serialised per id, a challenge that was compared with
\* an answer is never compared again: after a comparison the record is
\* authenticated, limited or waiting for its fresh challenge, and it is never
\* made comparable again with the challenge it held.
C39_OneEvaluation ==
    [][/\ \A id \in Subject, ans \in Inputs : Compares(id, ans) => ~Comparable(id)'
       /\ \A id \in Subject : ~SameChallengeAgain(id)
       /\ FreshOnResume]_vars

\* what the code keeps of it when popCaptcha() rejects: a record becomes
\* comparable again with the challenge it held only by a call that returns
\* "error"
C39_OnlyAfterError ==
    [][/\ \A id \in Subject, ans \in Inputs :
            Compares(id, ans) => ~Comparable(id)' \/ Returns(ans, "error")
       /\ \A id \in Subject : SameChallengeAgain(id) => Errs(id)
       /\ FreshOnResume]_vars

\* two answers required, provider failing: the first right answer was credited
\* and its reissue failed; the same answer to the same challenge was credited
\* again and authenticated the subject, who solved one challenge
C39_SolvedOnce ==
    /\ prefs.provider = "flaky" /\ prefs.requiredAnswers = 2
    /\ Mapped("s1") /\ Rec("s1").authd /\ Rec("s1").correct = 2 * Half
    /\ Rec("s1").wrong = 0
    /\ Rec("s1").captcha.id = 1
    /\ \E s \in Done : IsAnswer(calls[s].ans) /\ calls[s].result.state = "success"

(***************************************************************************)
(* Two subjects, checked under SpecCross                                   *)
(***************************************************************************)

\* the step belongs to an operation on j: a tryAuth(j, .) up to its await,
\* deAuth(j), or the resumption of a call for j
ActsFor(j) ==
    \/ \E ans \in SweepInputs : Tried(j, ans)
    \/ DeAuth(j)
    \/ \E s \in Slots : calls[s].id = j /\ Resumed(s)

\* the step is a sweep that deletes the expired record of j
Swept(j) ==
    /\ Expired(Rec(j))
    /\ now - authr.lastOldCheck > prefs.authTimeout
    /\ authr'.lastOldCheck = now
    /\ authr'.map[j] = 0

\* the call in slot s has received its challenge
Resolved(s) == calls[s].pc \in {"settled", "written", "done"} /\ calls[s].rec # 0

\* the challenges that records and resolved calls hold are pairwise distinct
C40_Distinct ==
    /\ \A x, y \in Addrs :
          /\ x # y /\ heap[x].live /\ heap[y].live
          /\ heap[x].captcha.id # 0
          => heap[x].captcha.id # heap[y].captcha.id
    /\ \A s, t \in Slots :
          s # t /\ Resolved(s) /\ Resolved(t) =>
             calls[s].value.id # calls[t].value.id
    /\ \A s \in Slots, x \in Addrs :
          calls[s].pc = "settled" /\ heap[x].live =>
             calls[s].value.id # heap[x].captcha.id

C40_Step ==
    /\ \A j \in Ids :
          Mapped(j) /\ ~Retained(j) => ActsFor(j) \/ Swept(j)
    \* an operation on another id that begins, resumes or returns leaves the
    \* record of j alone, unless it sweeps it
    /\ \A j \in Ids, s \in Slots :
          /\ Mapped(j)
          /\ calls'[s].pc # calls[s].pc
          /\ IF calls[s].kind = "idle" THEN calls'[s].id # j ELSE calls[s].id # j
          => Retained(j) \/ Swept(j)
    /\ \A j \in Ids, id \in Subject :
          Mapped(j) /\ id # j /\ DeAuth(id) => Retained(j)

\* C40: tryAuth(id, .), deAuth(id) and deAuthAndGenNew(id) leave the record
\* stored under any other id as it is (counters, timestamps, authenticated
\* flag, challenge) and in the map, unless the sweep inside tryAuth deletes it
\* as expired; calls for different ids that are suspended together receive
\* distinct challenges.
C40_NonInterference == []C40_Distinct /\ [][C40_Step]_vars

\* tryAuth(s2) and deAuthAndGenNew(s1) were parked together; the call of s2
\* has written the challenge it received into its new record, the call of s1
\* still waits for its own, and the authenticated record of s1 is as it was
C40_Witness ==
    \E s, t \in Slots :
        /\ calls[s].kind = "deAuthAndGenNew" /\ calls[s].id = "s1"
        /\ calls[t].kind = "tryAuth" /\ calls[t].id = "s2"
        /\ calls[s].pc = "parked" /\ calls[t].pc = "written"
        /\ calls[t].value.id # 0
        /\ heap[calls[t].rec].captcha = calls[t].value
        /\ Mapped("s1") /\ Rec("s1").authd /\ Rec("s1").captcha.id # calls[t].value.id

\* s1 was de-authenticated and given a new record while s2, issued the first
\* challenge at time 1, was left as it was
C40_Kept ==
    /\ \E s \in Done :
          calls[s].result.op = "deAuthAndGenNew" /\ calls[s].result.state = "new"
    /\ Mapped("s1") /\ Mapped("s2")
    /\ Rec("s2").captcha.id = 1 /\ Rec("s2").lastDownloadTime = 1
    /\ Rec("s1").captcha.id = 3 /\ now = 3

====
